---- MODULE Spec2Model ----
(***************************************************************************)
(* Model of the map component FullMap (marker clustering, viewport         *)
(* culling, marker rendering, nearest-pizzeria ranking) and of the page    *)
(* state that feeds it.                                                    *)
(*                                                                         *)
(* Coordinates are integers counting quarter degrees (4 units per degree), *)
(* so every coordinate is an exact binary fraction and the code's          *)
(* floating-point arithmetic on them is exact up to the final sqrt /       *)
(* trigonometric step.  A coordinate of 0 stands for every falsy value of  *)
(* the source (0, null, undefined): the code tests `!location.lat`.        *)
(***************************************************************************)
EXTENDS Integers, Sequences, FiniteSets, TLC

VARIABLES
    \* ---- harness of the pure function clusterMarkers
    cmMarkers,      \* argument `markers`
    cmZoom,         \* argument `zoom`
    cmOut,          \* the returned clusters (<<>> before the call)
    cmPc,           \* "call" before the call, "done" after it
    \* ---- harness of the ranking of findNearestPizzerias alone
    rkData,         \* the dataset of the closure
    rkUser,         \* arguments userLat, userLng
    rkMax,          \* the maxDistance of the closure (km)
    rkOut,          \* the list handed to onNearestPizzeriasUpdate (<<>> before the call)
    rkPc,           \* "call" before the call, "done" after it
    \* ---- harness of the bookmark store alone
    localStorage,   \* the item '50toppizza_bookmarks': <<>> (null) or <<list>>
    bkCall,         \* the last toggleBookmark call: <<>> or <<record>>
    bkPrevCall,     \* the toggleBookmark call before it: <<>> or <<record>>
    \* ---- page state (Home) handed to FullMap as props
    cityData, selectedCity, bookmarks, maxDistance, autoTriggerLocation,
    nearestPizzerias,       \* set by onNearestPizzeriasUpdate
    permissionQuery,        \* navigator.permissions.query: "none", "pending", "done"
    stats,                  \* the status text under the title
    allCities,              \* the options of the city selector
    selectedLocation,       \* selectedPizzeria, the selectedLocation prop: <<>> or <<key>>
    \* ---- FullMap state
    isLeafletReady, zoomLevel, viewportBounds, userLocation, locating, locationError,
    \* ---- FullMap refs
    shouldFitBoundsRef, markersRef, markersMapRef, clusterMarkersRef,
    userLocationMarkerRef,
    \* ---- the Leaflet map and the browser
    mapView,                \* zoom and bounds of the map (NoMap before it is created)
    mapEventPending,        \* a zoomend / moveend of a programmatic move is due
    zoomCapTimer,           \* the setTimeout(..., 100) after fitBounds is due
    errorTimer,             \* the setTimeout(..., 3000) clearing locationError is due
    geoRequests,            \* getCurrentPosition calls in flight, with their closures
    mapLayers,              \* the pizzeria and cluster markers added to the map
    popupOpen,              \* the key of the marker whose popup is open: <<>> or <<key>>
    popupTimers,            \* keys of the pending setTimeout(..., 600) of a selection
    \* ---- observations of the last run of an operation
    allMarkers,             \* local allMarkers of the last marker update
    recompute,              \* what the last marker update did
    userActions,            \* user-interface events handled so far
    rankCall                \* arguments and closure of the last findNearestPizzerias

cmVars == <<cmMarkers, cmZoom, cmOut, cmPc>>

compVars == <<cityData, selectedCity, bookmarks, maxDistance, autoTriggerLocation,
              nearestPizzerias, permissionQuery, stats, allCities, selectedLocation,
              popupOpen, popupTimers,
              isLeafletReady, zoomLevel, viewportBounds, userLocation, locating,
              locationError, shouldFitBoundsRef, markersRef, markersMapRef,
              clusterMarkersRef, userLocationMarkerRef, mapView, mapEventPending,
              zoomCapTimer, errorTimer, geoRequests, mapLayers, allMarkers, recompute, rankCall,
              userActions>>

rkVars == <<rkData, rkUser, rkMax, rkOut, rkPc>>

bkVars == <<localStorage, bkCall, bkPrevCall>>

harnessVars == <<cmVars, rkVars, bkVars>>

vars == <<cmVars, rkVars, bkVars, compVars>>

(***************************************************************************)
(* Bounds of the model                                                     *)
(***************************************************************************)
MaxUserActions == 2     \* user-interface events (clicks, slider, pan/zoom) in one run
MaxMarkers == 3         \* longest marker list handed to clusterMarkers alone

(***************************************************************************)
(* Program constants                                                       *)
(***************************************************************************)
MaxZoom == 19           \* maxZoom of the tile layer
OffZoom == 16           \* first zoom level with threshold 0 (no clustering)
ZoomCap == 13           \* setZoom(13) after fitBounds for a single city
LocateZoom == 13        \* setView([latitude, longitude], 13)

Zooms == 0..MaxZoom

RECURSIVE Pow2(_)
Pow2(n) == IF n = 0 THEN 1 ELSE 2 * Pow2(n - 1)

(***************************************************************************)
(* clusterMarkers: the pixel threshold                                     *)
(***************************************************************************)
pixelDistance_NoOff(zoom) ==
    IF zoom < 4 THEN 150
    ELSE IF zoom < 6 THEN 100
    ELSE IF zoom < 8 THEN 80
    ELSE IF zoom < 10 THEN 60
    ELSE IF zoom < 12 THEN 40
    ELSE IF zoom < 14 THEN 25
    ELSE 15

pixelDistance_Swapped(zoom) ==
    IF zoom < 4 THEN 150
    ELSE IF zoom < 6 THEN 100
    ELSE IF zoom < 8 THEN 80
    ELSE IF zoom < 10 THEN 40
    ELSE IF zoom < 12 THEN 60
    ELSE IF zoom < 14 THEN 25
    ELSE IF zoom < 16 THEN 15
    ELSE 0

pixelDistance(zoom) ==
    IF zoom < 4 THEN 150
    ELSE IF zoom < 6 THEN 100
    ELSE IF zoom < 8 THEN 80
    ELSE IF zoom < 10 THEN 60
    ELSE IF zoom < 12 THEN 40
    ELSE IF zoom < 14 THEN 25
    ELSE IF zoom < OffZoom THEN 15
    ELSE 0

(***************************************************************************)
(* approxPixelDistance < pixelDistance, decided exactly.                   *)
(*   distance            = sqrt(dLat^2 + dLng^2)            (degrees)      *)
(*   approxPixelDistance = distance * 2^zoom * 256 / 360                   *)
(* With d2 the squared distance in model units (quarter degrees),          *)
(* distance = sqrt(d2) / 4, so                                             *)
(*   approxPixelDistance < T  <=>  sqrt(d2) * 2^(zoom+3) < T * 45.         *)
(* a = T * 45 and b = 2^(zoom+3); the test is d2 * b^2 < a^2, evaluated    *)
(* through q = a \div b so that no product leaves 32 bits.  On this grid   *)
(* a / b is never the square root of an integer, so the rounding of the    *)
(* code's floating-point sqrt and products cannot flip the comparison.     *)
(***************************************************************************)
SqDist(m1, m2) ==
    (m1.lat - m2.lat) * (m1.lat - m2.lat) + (m1.lng - m2.lng) * (m1.lng - m2.lng)

PixelLess(d2, zoom, T) ==
    LET a == T * 45
        b == Pow2(zoom + 3)
        q == a \div b
    IN  IF d2 <= q * q THEN (d2 < q * q) \/ (a % b # 0)
        ELSE IF d2 >= (q + 1) * (q + 1) THEN FALSE
        ELSE d2 * b * b < a * a

IsNear(mi, mj, zoom) ==
    PixelLess(SqDist(mi, mj), zoom, pixelDistance(zoom))

(***************************************************************************)
(* clusterMarkers: the two loops.  `used` is the Set of indices (1-based   *)
(* here), `cluster` the group being built, `clusters` the result so far.   *)
(***************************************************************************)
\* Mutant: the distance is measured to the member absorbed last.
RECURSIVE InnerLoop_ToLast(_, _, _, _, _, _)
InnerLoop_ToLast(markers, zoom, i, j, used, cluster) ==
    IF j > Len(markers) THEN [used |-> used, cluster |-> cluster]
    ELSE IF j \in used THEN InnerLoop_ToLast(markers, zoom, i, j + 1, used, cluster)
    ELSE IF markers[j].isBookmarked
         THEN InnerLoop_ToLast(markers, zoom, i, j + 1, used, cluster)
    ELSE IF IsNear(cluster[Len(cluster)], markers[j], zoom)
         THEN InnerLoop_ToLast(markers, zoom, i, j + 1, used \cup {j},
                               Append(cluster, markers[j]))
    ELSE InnerLoop_ToLast(markers, zoom, i, j + 1, used, cluster)

\* Mutant: the inner loop does not skip bookmarked markers.
RECURSIVE InnerLoop_AbsorbBookmarked(_, _, _, _, _, _)
InnerLoop_AbsorbBookmarked(markers, zoom, i, j, used, cluster) ==
    IF j > Len(markers) THEN [used |-> used, cluster |-> cluster]
    ELSE IF j \in used
         THEN InnerLoop_AbsorbBookmarked(markers, zoom, i, j + 1, used, cluster)
    ELSE IF IsNear(markers[i], markers[j], zoom)
         THEN InnerLoop_AbsorbBookmarked(markers, zoom, i, j + 1, used \cup {j},
                                         Append(cluster, markers[j]))
    ELSE InnerLoop_AbsorbBookmarked(markers, zoom, i, j + 1, used, cluster)

\* Mutant: an absorbed marker is not added to `used`.
RECURSIVE InnerLoop_NoMark(_, _, _, _, _, _)
InnerLoop_NoMark(markers, zoom, i, j, used, cluster) ==
    IF j > Len(markers) THEN [used |-> used, cluster |-> cluster]
    ELSE IF j \in used THEN InnerLoop_NoMark(markers, zoom, i, j + 1, used, cluster)
    ELSE IF markers[j].isBookmarked
         THEN InnerLoop_NoMark(markers, zoom, i, j + 1, used, cluster)
    ELSE IF IsNear(markers[i], markers[j], zoom)
         THEN InnerLoop_NoMark(markers, zoom, i, j + 1, used,
                               Append(cluster, markers[j]))
    ELSE InnerLoop_NoMark(markers, zoom, i, j + 1, used, cluster)

RECURSIVE InnerLoop(_, _, _, _, _, _)
InnerLoop(markers, zoom, i, j, used, cluster) ==
    IF j > Len(markers) THEN [used |-> used, cluster |-> cluster]
    ELSE IF j \in used THEN InnerLoop(markers, zoom, i, j + 1, used, cluster)
    ELSE IF markers[j].isBookmarked
         THEN InnerLoop(markers, zoom, i, j + 1, used, cluster)
    ELSE IF IsNear(markers[i], markers[j], zoom)
         THEN InnerLoop(markers, zoom, i, j + 1, used \cup {j},
                        Append(cluster, markers[j]))
    ELSE InnerLoop(markers, zoom, i, j + 1, used, cluster)

RECURSIVE OuterLoop(_, _, _, _, _)
OuterLoop(markers, zoom, i, used, clusters) ==
    IF i > Len(markers) THEN clusters
    ELSE IF i \in used THEN OuterLoop(markers, zoom, i + 1, used, clusters)
    ELSE IF markers[i].isBookmarked
         THEN OuterLoop(markers, zoom, i + 1, used \cup {i},
                        Append(clusters, <<markers[i]>>))
    ELSE LET r == InnerLoop(markers, zoom, i, i + 1, used \cup {i}, <<markers[i]>>)
         IN  OuterLoop(markers, zoom, i + 1, r.used, Append(clusters, r.cluster))

clusterMarkers(markers, zoom) ==
    IF pixelDistance(zoom) = 0
    THEN [k \in 1..Len(markers) |-> <<markers[k]>>]
    ELSE OuterLoop(markers, zoom, 1, {}, <<>>)

(***************************************************************************)
(* Harness: clusterMarkers on every marker list of at most MaxMarkers      *)
(* points of a small grid, at every zoom level.  `data` is the marker's    *)
(* payload; it is distinct for every marker of a list, as the (city,       *)
(* pizzeria, index) payloads of the component are.                         *)
(***************************************************************************)
CmLats == {1, 2, 9}
CmLngs == {1, 4}
CmPoints == [lat : CmLats, lng : CmLngs, isBookmarked : BOOLEAN]

CmLists ==
    UNION { { [k \in 1..n |->
                 [lat |-> f[k].lat, lng |-> f[k].lng,
                  isBookmarked |-> f[k].isBookmarked, data |-> k]]
              : f \in [1..n -> CmPoints] }
            : n \in 0..MaxMarkers }

CmInit ==
    /\ cmMarkers \in CmLists
    /\ cmZoom \in Zooms
    /\ cmOut = <<>>
    /\ cmPc = "call"

CmCall ==
    /\ cmPc = "call"
    /\ cmOut' = clusterMarkers(cmMarkers, cmZoom)
    /\ cmPc' = "done"
    /\ UNCHANGED <<cmMarkers, cmZoom>>

(***************************************************************************)
(* The dataset (cityData).  Names are sequences of characters, so that     *)
(* the marker key `${cityName}-${pizzeria.name}-${idx}` is a real          *)
(* concatenation.  cityData is the sequence of the object's entries in     *)
(* insertion order (Object.entries); <<>> is the page's initial {}.        *)
(* A location is [address, lat, lng]; addresses are distinct, standing     *)
(* for the identity of the location object.  Bookmarks keep the three      *)
(* fields the component reads (pizzeriaName, city, locationIndex).         *)
(***************************************************************************)
Loc(address, lat, lng) == [address |-> address, lat |-> lat, lng |-> lng]

\* Two cities; pizzeria A has an unusable location (lat 0) between two
\* usable ones; A's first location and B's only location coincide.
DataRome ==
    << [name |-> <<"R">>,
        pizzerias |->
          << [name |-> <<"A">>, url |-> "uA",
              locations |-> << Loc("a1", 1, 1), Loc("a2", 0, 4), Loc("a3", 2, 1) >>],
             [name |-> <<"B">>, url |-> "uB",
              locations |-> << Loc("b1", 1, 1) >>] >>],
       [name |-> <<"M">>,
        pizzerias |->
          << [name |-> <<"C">>, url |-> "uC",
              locations |-> << Loc("c1", 9, 4), Loc("c2", 1, 3) >>] >>] >>

\* City and pizzeria names that contain the '-' of the marker key.
DataDash ==
    << [name |-> <<"R", "-", "A">>,
        pizzerias |->
          << [name |-> <<"B">>, url |-> "uD",
              locations |-> << Loc("d1", 2, 1) >>] >>],
       [name |-> <<"R">>,
        pizzerias |->
          << [name |-> <<"A", "-", "B">>, url |-> "uE",
              locations |-> << Loc("e1", 2, 4), Loc("e2", 1, 3) >>] >>] >>

Datasets == {DataRome, DataDash}

NoCity == <<>>                      \* selectedCity = ''
SelectableCities == {NoCity, <<"R">>, <<"M">>}

Bm(name, city, idx) == [pizzeriaName |-> name, city |-> city, locationIndex |-> idx]
BookmarkTargets ==
    { Bm(<<"A">>, <<"R">>, 0), Bm(<<"B">>, <<"R">>, 0), Bm(<<"B">>, <<"R", "-", "A">>, 0) }

RECURSIVE Flatten(_)
Flatten(ss) == IF ss = <<>> THEN <<>> ELSE Head(ss) \o Flatten(Tail(ss))

HasCity(cd, city) == \E c \in 1..Len(cd) : cd[c].name = city
CityOf(cd, city) == cd[CHOOSE c \in 1..Len(cd) : cd[c].name = city]

\* `${idx}` for the indices of the model (one decimal digit).
IdxStr(idx) == << <<"0", "1", "2", "3", "4", "5", "6", "7", "8", "9">>[idx + 1] >>

MarkerKey(cityName, name, idx) == cityName \o <<"-">> \o name \o <<"-">> \o IdxStr(idx)

isLocationBookmarked(bms, pizzeriaName, cityName, locationIndex) ==
    \E b \in 1..Len(bms) :
        /\ bms[b].pizzeriaName = pizzeriaName
        /\ bms[b].city = cityName
        /\ bms[b].locationIndex = locationIndex

(***************************************************************************)
(* The traversal shared by the marker update effect and by                 *)
(* findNearestPizzerias: Object.entries(...).forEach, pizzerias.forEach,   *)
(* locations.forEach((location, idx) => ...), idx counted from 0.          *)
(***************************************************************************)
Traverse(cities) ==
    Flatten([c \in 1..Len(cities) |->
        Flatten([p \in 1..Len(cities[c].pizzerias) |->
            [l \in 1..Len(cities[c].pizzerias[p].locations) |->
                [cityName |-> cities[c].name,
                 pizzeria |-> cities[c].pizzerias[p],
                 location |-> cities[c].pizzerias[p].locations[l],
                 idx |-> l - 1]]])])

\* `!location.lat || !location.lng` is false
ValidLocation(location) == location.lat # 0 /\ location.lng # 0

(***************************************************************************)
(* Viewport bounds: [s, w, n, e] (south-west and north-east corners).      *)
(* pad(0.5) grows the box by half its height and half its width on each    *)
(* side (Leaflet's LatLngBounds.pad); the padded box is kept in doubled    *)
(* coordinates so that half units stay integers.  contains is inclusive.   *)
(***************************************************************************)
NoBounds == <<>>                    \* viewportBounds = null; <<b>> otherwise

Abs(x) == IF x < 0 THEN -x ELSE x

pad_None(b) ==
    [s2 |-> 2 * b.s, w2 |-> 2 * b.w, n2 |-> 2 * b.n, e2 |-> 2 * b.e]

pad(b) ==
    [s2 |-> 2 * b.s - Abs(b.s - b.n), w2 |-> 2 * b.w - Abs(b.w - b.e),
     n2 |-> 2 * b.n + Abs(b.s - b.n), e2 |-> 2 * b.e + Abs(b.w - b.e)]

contains(pb, lat, lng) ==
    /\ 2 * lat >= pb.s2 /\ 2 * lat <= pb.n2
    /\ 2 * lng >= pb.w2 /\ 2 * lng <= pb.e2

\* citiesToDisplay
CitiesToDisplay(cd, sel) ==
    IF sel # NoCity /\ HasCity(cd, sel) THEN << CityOf(cd, sel) >> ELSE cd

\* allMarkers.push({ lat, lng, isBookmarked, data }) for the traversal entry t
MarkerOf(t, bms) ==
    [lat |-> t.location.lat,
     lng |-> t.location.lng,
     isBookmarked |-> isLocationBookmarked(bms, t.pizzeria.name, t.cityName, t.idx),
     data |-> t]

MarkersOf(kept, bms) == [k \in 1..Len(kept) |-> MarkerOf(kept[k], bms)]

\* The traversal without the test of the coordinates
CollectMarkers_KeepInvalid(cd, sel, vb, bms) ==
    LET keep(t) ==
            vb # NoBounds => contains(pad(vb[1]), t.location.lat, t.location.lng)
    IN  MarkersOf(SelectSeq(Traverse(CitiesToDisplay(cd, sel)), keep), bms)

\* The traversal without the test of the viewport
CollectMarkers_NoCull(cd, sel, vb, bms) ==
    LET keep(t) == ValidLocation(t.location)
    IN  MarkersOf(SelectSeq(Traverse(CitiesToDisplay(cd, sel)), keep), bms)

\* allMarkers: the working set handed to clusterMarkers
CollectMarkers(cd, sel, vb, bms) ==
    LET keep(t) ==
            /\ ValidLocation(t.location)
            /\ vb # NoBounds => contains(pad(vb[1]), t.location.lat, t.location.lng)
    IN  MarkersOf(SelectSeq(Traverse(CitiesToDisplay(cd, sel)), keep), bms)

(***************************************************************************)
(* The markers created from the clusters.  A position is a pair of         *)
(* fractions [latNum/den, lngNum/den]: a singleton sits at its own         *)
(* coordinate (den 1), an aggregate at sum/length of its members.          *)
(***************************************************************************)
RECURSIVE SumLat(_)
SumLat(cluster) == IF cluster = <<>> THEN 0 ELSE Head(cluster).lat + SumLat(Tail(cluster))
RECURSIVE SumLng(_)
SumLng(cluster) == IF cluster = <<>> THEN 0 ELSE Head(cluster).lng + SumLng(Tail(cluster))

PizzaIcon == "pizza"
BookmarkedIcon == "bookmarked"

SingleMarker(m) ==
    [key |-> MarkerKey(m.data.cityName, m.data.pizzeria.name, m.data.idx),
     latNum |-> m.lat, lngNum |-> m.lng, den |-> 1,
     icon |-> IF m.isBookmarked THEN BookmarkedIcon ELSE PizzaIcon,
     data |-> m.data]

ClusterMarker_FirstMember(cluster) ==
    [latNum |-> cluster[1].lat, lngNum |-> cluster[1].lng, den |-> 1,
     count |-> Len(cluster), members |-> cluster]

ClusterMarker(cluster) ==
    [latNum |-> SumLat(cluster), lngNum |-> SumLng(cluster), den |-> Len(cluster),
     count |-> Len(cluster), members |-> cluster]

isSingle(cluster) == Len(cluster) = 1
isMulti(cluster) == Len(cluster) # 1

\* markersRef, clusterMarkersRef and the local `bounds` after clusters.forEach
RenderSingles(clusters) ==
    LET one == SelectSeq(clusters, isSingle)
    IN  [k \in 1..Len(one) |-> SingleMarker(one[k][1])]

RenderClusters(clusters) ==
    LET many == SelectSeq(clusters, isMulti)
    IN  [k \in 1..Len(many) |-> ClusterMarker(many[k])]

\* markersMapRef: key -> index in markersRef of the marker set last for the key
BuildMarkersMap(ms) ==
    [key \in {ms[k].key : k \in 1..Len(ms)} |->
        CHOOSE k \in 1..Len(ms) :
            ms[k].key = key /\ \A k2 \in 1..Len(ms) : ms[k2].key = key => k2 <= k]

(***************************************************************************)
(* calculateDistance (haversine, R = 6371 km), in decimetres.  The table   *)
(* holds the value of the source formula for the latitudes 1, 2, 9 and     *)
(* the longitude differences -3..3 of the model (quarter degrees),         *)
(* rounded to 0.1 m; on this grid two distances are equal as doubles       *)
(* exactly when their table entries are equal.  The formula reads lon1     *)
(* and lon2 only through dLon = lon2 - lon1.                               *)
(***************************************************************************)
HaversineDm ==
    <<1, 1>> :> <<833954, 555969, 277985, 0, 277985, 555969, 833954>> @@
    <<1, 2>> :> <<879056, 621587, 393129, 277987, 393129, 621587, 879056>> @@
    <<1, 9>> :> <<2375040, 2292303, 2241195, 2223899, 2241195, 2292303, 2375040>> @@
    <<2, 1>> :> <<879056, 621587, 393129, 277987, 393129, 621587, 879056>> @@
    <<2, 2>> :> <<833930, 555953, 277977, 0, 277977, 555953, 833930>> @@
    <<2, 9>> :> <<2116981, 2023728, 1965654, 1945911, 1965654, 2023728, 2116981>> @@
    <<9, 1>> :> <<2375040, 2292303, 2241195, 2223899, 2241195, 2292303, 2375040>> @@
    <<9, 2>> :> <<2116981, 2023728, 1965654, 1945911, 1965654, 2023728, 2116981>> @@
    <<9, 9>> :> <<833319, 555546, 277773, 0, 277773, 555546, 833319>>

\* The formula with cos(lat1) twice in place of cos(lat1) * cos(lat2) and
\* without dLat
calculateDistance_FirstLat(lat1, lon1, lat2, lon2) ==
    LET dLon == lon2 - lon1
    IN  HaversineDm[<<lat1, lat1>>][dLon + 4]

calculateDistance(lat1, lon1, lat2, lon2) ==
    LET dLon == lon2 - lon1
    IN  HaversineDm[<<lat1, lat2>>][dLon + 4]

\* p.distance <= maxDistance, maxDistance in km
WithinMax_Strict(distance, maxDist) == distance < maxDist * 10000

WithinMax(distance, maxDist) == distance <= maxDist * 10000

\* An insertion that moves the new item in front of its equals
RECURSIVE InsertByDistance_Unstable(_, _)
InsertByDistance_Unstable(sorted, item) ==
    IF sorted = <<>> THEN <<item>>
    ELSE IF item.distance <= sorted[Len(sorted)].distance
         THEN Append(InsertByDistance_Unstable(SubSeq(sorted, 1, Len(sorted) - 1), item),
                     sorted[Len(sorted)])
    ELSE Append(sorted, item)

\* Array.prototype.sort((a, b) => a.distance - b.distance): stable
RECURSIVE InsertByDistance(_, _)
InsertByDistance(sorted, item) ==
    IF sorted = <<>> THEN <<item>>
    ELSE IF item.distance < sorted[Len(sorted)].distance
         THEN Append(InsertByDistance(SubSeq(sorted, 1, Len(sorted) - 1), item),
                     sorted[Len(sorted)])
    ELSE Append(sorted, item)

RECURSIVE SortByDistance(_)
SortByDistance(items) ==
    IF items = <<>> THEN <<>>
    ELSE InsertByDistance(SortByDistance(SubSeq(items, 1, Len(items) - 1)),
                          items[Len(items)])

\* The filter without the sort
Nearest_NoSort(items, maxDist) ==
    LET within(p) == WithinMax(p.distance, maxDist)
    IN  SelectSeq(items, within)

\* A ranking with a special case for the radius 0
Nearest_ZeroEmpty(items, maxDist) ==
    LET within(p) == WithinMax(p.distance, maxDist)
    IN  IF maxDist = 0 THEN <<>> ELSE SortByDistance(SelectSeq(items, within))

\* pizzeriasWithDistance.filter(...).sort(...)
Nearest(items, maxDist) ==
    LET within(p) == WithinMax(p.distance, maxDist)
    IN  SortByDistance(SelectSeq(items, within))

\* pizzeriasWithDistance.push({...}) for the traversal entry t
RankItem(t, userLat, userLng) ==
    [name |-> t.pizzeria.name,
     city |-> t.cityName,
     distance |-> calculateDistance(userLat, userLng, t.location.lat, t.location.lng),
     location |-> t.location,
     url |-> t.pizzeria.url,
     markerKey |-> MarkerKey(t.cityName, t.pizzeria.name, t.idx)]

RankItems(all, userLat, userLng) ==
    [k \in 1..Len(all) |-> RankItem(all[k], userLat, userLng)]

\* pizzeriasWithDistance: one item per usable location of the dataset `cd`
PizzeriasWithDistance(cd, userLat, userLng) ==
    RankItems(SelectSeq(Traverse(cd), LAMBDA t : ValidLocation(t.location)),
              userLat, userLng)

(***************************************************************************)
(* The map views of the model.  A view is the map's zoom and bounds.       *)
(* From zoom 13 on the visible box is narrower than one unit of the grid,  *)
(* so it holds the grid point at its centre and no other: PointBounds.     *)
(***************************************************************************)
NoMap == "nomap"
NoLocation == <<>>                  \* userLocation = null; <<u>> otherwise
NoError == "null"
Bounds(s, w, n, e) == [s |-> s, w |-> w, n |-> n, e |-> e]
PointBounds(lat, lng) == Bounds(lat, lng, lat, lng)
View(zoom, b) == [zoom |-> zoom, bounds |-> b]

UserCoords == { [lat |-> 1, lng |-> 1], [lat |-> 1, lng |-> 2] }
MaxDistances == {5, 30, 100}        \* positions of the page's slider (km)

InitialView == View(6, Bounds(124, 6, 212, 94))    \* setView([41.9, 12.5], 6)
Views ==
    { InitialView,
      View(2, Bounds(-360, -720, 360, 720)),
      View(6, Bounds(-43, -43, 45, 45)),
      View(10, Bounds(4, 3, 9, 7)),
      View(17, PointBounds(1, 1)) }
    \cup { View(13, PointBounds(u.lat, u.lng)) : u \in UserCoords }

\* fitBounds(points): the view afterwards holds every point
InBounds(b, pt) ==
    /\ pt.latNum >= b.s * pt.den /\ pt.latNum <= b.n * pt.den
    /\ pt.lngNum >= b.w * pt.den /\ pt.lngNum <= b.e * pt.den

FitsAll(v, ms, cs) ==
    /\ \A k \in 1..Len(ms) : InBounds(v.bounds, ms[k])
    /\ \A k \in 1..Len(cs) : InBounds(v.bounds, cs[k])

(***************************************************************************)
(* The component state as one record, so that an event handler, the        *)
(* render it causes and the effects of that render compose in sequence.    *)
(* fitOk / fitUsed are not state: they tie the view chosen for fitBounds   *)
(* to the points it was called with.                                       *)
(***************************************************************************)
\* What a marker update is recorded to have done: the zoom it read, the
\* dependencies that changed in its render (deps), whether fitBounds was
\* called and in a render with which changed dependencies (fitDeps), the
\* keys of the markers in markersRef before it (before), of the markers it
\* removed from the map (destroyed) and of those it made with L.marker
\* (created).
NoRecompute ==
    [ran |-> FALSE, fit |-> FALSE, zoom |-> 0, deps |-> {}, fitDeps |-> {},
     before |-> {}, destroyed |-> {}, created |-> {}]

St ==
    [cityData |-> cityData, selectedCity |-> selectedCity, bookmarks |-> bookmarks,
     maxDistance |-> maxDistance, autoTriggerLocation |-> autoTriggerLocation,
     nearestPizzerias |-> nearestPizzerias, permissionQuery |-> permissionQuery,
     stats |-> stats, allCities |-> allCities, selectedLocation |-> selectedLocation,
     popupOpen |-> popupOpen, popupTimers |-> popupTimers,
     isLeafletReady |-> isLeafletReady, zoomLevel |-> zoomLevel,
     viewportBounds |-> viewportBounds, userLocation |-> userLocation,
     locating |-> locating, locationError |-> locationError,
     shouldFitBoundsRef |-> shouldFitBoundsRef, markersRef |-> markersRef,
     markersMapRef |-> markersMapRef, clusterMarkersRef |-> clusterMarkersRef,
     userLocationMarkerRef |-> userLocationMarkerRef, mapView |-> mapView,
     mapEventPending |-> mapEventPending, zoomCapTimer |-> zoomCapTimer,
     errorTimer |-> errorTimer, geoRequests |-> geoRequests,
     mapLayers |-> mapLayers, allMarkers |-> allMarkers,
     recompute |-> NoRecompute,
     rankCall |-> rankCall, userActions |-> userActions,
     fitOk |-> TRUE, fitUsed |-> FALSE]

Install(st) ==
    /\ stats' = st.stats /\ allCities' = st.allCities
    /\ selectedLocation' = st.selectedLocation
    /\ popupOpen' = st.popupOpen /\ popupTimers' = st.popupTimers
    /\ mapLayers' = st.mapLayers
    /\ cityData' = st.cityData /\ selectedCity' = st.selectedCity
    /\ bookmarks' = st.bookmarks /\ maxDistance' = st.maxDistance
    /\ autoTriggerLocation' = st.autoTriggerLocation
    /\ nearestPizzerias' = st.nearestPizzerias
    /\ permissionQuery' = st.permissionQuery
    /\ isLeafletReady' = st.isLeafletReady /\ zoomLevel' = st.zoomLevel
    /\ viewportBounds' = st.viewportBounds /\ userLocation' = st.userLocation
    /\ locating' = st.locating /\ locationError' = st.locationError
    /\ shouldFitBoundsRef' = st.shouldFitBoundsRef /\ markersRef' = st.markersRef
    /\ markersMapRef' = st.markersMapRef /\ clusterMarkersRef' = st.clusterMarkersRef
    /\ userLocationMarkerRef' = st.userLocationMarkerRef /\ mapView' = st.mapView
    /\ mapEventPending' = st.mapEventPending /\ zoomCapTimer' = st.zoomCapTimer
    /\ errorTimer' = st.errorTimer /\ geoRequests' = st.geoRequests
    /\ allMarkers' = st.allMarkers /\ recompute' = st.recompute
    /\ rankCall' = st.rankCall /\ userActions' = st.userActions

(***************************************************************************)
(* Effects of FullMap, in the order of their declaration.                  *)
(***************************************************************************)
\* The layers of the map that stand for pizzerias: a marker is known by the
\* location it was made for, a cluster marker by its members.
NoLayers == [markers |-> {}, clusters |-> {}]

KeysOf(ms) == { ms[k].key : k \in 1..Len(ms) }

\* marker.addTo(map) for the new markers ms and cluster markers cs
AddLayers(layers, ms, cs) ==
    [markers |-> layers.markers \cup { ms[k].data : k \in 1..Len(ms) },
     clusters |-> layers.clusters \cup { cs[k].members : k \in 1..Len(cs) }]

\* marker.remove() for each marker of ms and each cluster marker of cs
RemoveLayers(layers, ms, cs) ==
    [markers |-> layers.markers \ { ms[k].data : k \in 1..Len(ms) },
     clusters |-> layers.clusters \ { cs[k].members : k \in 1..Len(cs) }]

\* A clearing that leaves the cluster markers on the map
ClearMarkers_KeepClusters(st, ch) ==
    [st EXCEPT
        !.popupOpen = <<>>,
        !.mapLayers = RemoveLayers(@, st.markersRef, <<>>),
        !.markersRef = <<>>,
        !.markersMapRef = <<>>,
        !.clusterMarkersRef = <<>>,
        !.recompute = [@ EXCEPT !.deps = ch,
                                !.before = KeysOf(st.markersRef),
                                !.destroyed = KeysOf(st.markersRef)]]

\* "Clear existing markers", in a render whose changed dependencies are ch;
\* removing a marker from the map closes its popup
ClearMarkers(st, ch) ==
    [st EXCEPT
        !.popupOpen = <<>>,
        !.mapLayers = RemoveLayers(@, st.markersRef, st.clusterMarkersRef),
        !.markersRef = <<>>,
        !.markersMapRef = <<>>,
        !.clusterMarkersRef = <<>>,
        !.recompute = [@ EXCEPT !.deps = ch,
                                !.before = KeysOf(st.markersRef),
                                !.destroyed = KeysOf(st.markersRef)]]

MarkerDeps == {"isLeafletReady", "cityData", "selectedCity", "bookmarks",
               "zoomLevel", "viewportBounds"}

\* The end of the marker update: fitBounds(bounds), and the timer that
\* limits the zoom for a single city.  fv is the view fitBounds leaves.
FitBounds(st, fv, ms, cs, fit) ==
    [st EXCEPT
        !.recompute = [@ EXCEPT !.fit = @ \/ fit,
                                !.fitDeps = IF fit THEN st.recompute.deps ELSE @],
        !.mapView = IF fit THEN fv ELSE @,
        !.mapEventPending = IF fit THEN TRUE ELSE @,
        !.zoomCapTimer = IF fit /\ st.selectedCity # NoCity THEN TRUE ELSE @,
        !.fitOk = @ /\ (fit => FitsAll(fv, ms, cs)),
        !.fitUsed = @ \/ fit]

\* clusters.forEach: the markers ms of the groups of one and the
\* aggregates cs of the larger groups replace the cleared ones
PlaceMarkers(st, fv, am, currentZoom, ms, cs) ==
    FitBounds([st EXCEPT
                  !.markersRef = @ \o ms,
                  !.markersMapRef = BuildMarkersMap(st.markersRef \o ms),
                  !.clusterMarkersRef = @ \o cs,
                  !.mapLayers = AddLayers(@, ms, cs),
                  !.allMarkers = am,
                  !.recompute = [@ EXCEPT !.ran = TRUE, !.zoom = currentZoom,
                                          !.created = KeysOf(ms)]],
              fv, ms, cs, Len(ms) + Len(cs) > 0 /\ st.shouldFitBoundsRef)

RenderGroups(st, fv, am, currentZoom, clusters) ==
    PlaceMarkers(st, fv, am, currentZoom, RenderSingles(clusters), RenderClusters(clusters))

\* const clusters = clusterMarkers(allMarkers, currentZoom)
ClusterWorkingSet(st, fv, am, currentZoom) ==
    RenderGroups(st, fv, am, currentZoom, clusterMarkers(am, currentZoom))

\* "Update markers when cityData or selectedCity changes", in a render whose
\* changed dependencies are ch
MarkerUpdateEffect(st, ch, fv) ==
    IF ch \cap MarkerDeps = {} \/ ~st.isLeafletReady \/ st.cityData = <<>> THEN st
    ELSE ClusterWorkingSet(ClearMarkers(st, ch), fv,
                           CollectMarkers(st.cityData, st.selectedCity,
                                          st.viewportBounds, st.bookmarks),
                           st.mapView.zoom)

\* shouldFitBoundsRef.current = true, on [cityData, selectedCity]
FitOnEffect(st, ch) ==
    IF ch \cap {"cityData", "selectedCity"} = {} THEN st
    ELSE [st EXCEPT !.shouldFitBoundsRef = TRUE]

\* shouldFitBoundsRef.current = false, on [zoomLevel]
FitOffEffect(st, ch) ==
    IF "zoomLevel" \notin ch THEN st
    ELSE [st EXCEPT !.shouldFitBoundsRef = FALSE]

\* updateViewport of the viewport tracking effect
UpdateViewport(st) ==
    [st EXCEPT !.zoomLevel = st.mapView.zoom, !.viewportBounds = << st.mapView.bounds >>]

\* markerKey.split('-'), parts.slice(1, -1).join('-'), parseInt(last part)
RECURSIVE SplitDash(_)
SplitDash(key) ==
    IF \A k \in 1..Len(key) : key[k] # "-" THEN << key >>
    ELSE LET d == CHOOSE k \in 1..Len(key) :
                     key[k] = "-" /\ \A k2 \in 1..(k - 1) : key[k2] # "-"
         IN  << SubSeq(key, 1, d - 1) >> \o SplitDash(SubSeq(key, d + 1, Len(key)))

RECURSIVE JoinDash(_)
JoinDash(parts) ==
    IF parts = <<>> THEN <<>>
    ELSE IF Len(parts) = 1 THEN parts[1]
    ELSE parts[1] \o <<"-">> \o JoinDash(Tail(parts))

ParseIdx(part) ==
    CHOOSE n \in 0..9 : IdxStr(n) = part

ParseKey(key) ==
    LET parts == SplitDash(key)
    IN  [idx |-> ParseIdx(parts[Len(parts)]),
         pizzeriaName |-> JoinDash(SubSeq(parts, 2, Len(parts) - 1)),
         cityName |-> parts[1]]

\* marker.setIcon(icon) for the tuple pk parsed from the marker's key
IconFor(pk, bms) ==
    IF isLocationBookmarked(bms, pk.pizzeriaName, pk.cityName, pk.idx)
    THEN BookmarkedIcon ELSE PizzaIcon

WithIcon(m, bms) == [m EXCEPT !.icon = IconFor(ParseKey(m.key), bms)]

\* markersMapRef.current.forEach((marker, markerKey) => ...)
SetIcons(ms, map, bms) ==
    [k \in 1..Len(ms) |->
        IF \E key \in DOMAIN map : map[key] = k THEN WithIcon(ms[k], bms) ELSE ms[k]]

\* "Update marker icons when bookmarks change"
BookmarkIconEffect(st, ch) ==
    IF \/ ch \cap {"bookmarks", "isLeafletReady"} = {}
       \/ ~st.isLeafletReady \/ DOMAIN st.markersMapRef = {} THEN st
    ELSE [st EXCEPT !.markersRef = SetIcons(@, st.markersMapRef, st.bookmarks)]

SelectZoom == 15

\* mapRef.current.setView([lat, lng], 15, { animate: true, duration: 0.5 })
SetViewAt(st, lat, lng) ==
    [st EXCEPT !.mapView = View(SelectZoom, PointBounds(lat, lng)),
               !.mapEventPending = TRUE]

\* cityData?.[cityName], pizzerias.find(p => p.name === pizzeriaName),
\* pizzeria.locations[locationIndex]: <<location>>, or <<>> when one of
\* them is missing
LookUp(cd, pk) ==
    IF ~HasCity(cd, pk.cityName) THEN <<>>
    ELSE LET ps == SelectSeq(CityOf(cd, pk.cityName).pizzerias,
                             LAMBDA p : p.name = pk.pizzeriaName)
         IN  IF ps = <<>> \/ pk.idx + 1 > Len(ps[1].locations) THEN <<>>
             ELSE << ps[1].locations[pk.idx + 1] >>

\* The else branch: "Marker not in viewport - need to parse location from
\* key and move there"
MoveToParsed(st, key, found) ==
    IF found = <<>> THEN st
    ELSE [SetViewAt(st, found[1].lat, found[1].lng) EXCEPT
             !.popupTimers = @ \cup {key}]

\* The selected-location effect, on [selectedLocation, cityData]
SelectedLocationEffect(st, ch) ==
    IF \/ ch \cap {"selectedLocation", "cityData"} = {}
       \/ ~st.isLeafletReady \/ st.selectedLocation = <<>> THEN st
    ELSE IF st.selectedLocation[1] \in DOMAIN st.markersMapRef
    THEN [SetViewAt(st, st.markersRef[st.markersMapRef[st.selectedLocation[1]]].latNum,
                        st.markersRef[st.markersMapRef[st.selectedLocation[1]]].lngNum)
             EXCEPT !.popupOpen = st.selectedLocation]
    ELSE MoveToParsed(st, st.selectedLocation[1],
                      LookUp(st.cityData, ParseKey(st.selectedLocation[1])))

\* A ranking of the displayed cities only
findNearestPizzerias_Displayed(st, userLat, userLng, cd, maxDist) ==
    [st EXCEPT
        !.nearestPizzerias =
            Nearest(PizzeriasWithDistance(CitiesToDisplay(cd, st.selectedCity),
                                          userLat, userLng), maxDist),
        !.rankCall = [called |-> TRUE, userLat |-> userLat, userLng |-> userLng,
                      cityData |-> cd, maxDistance |-> maxDist]]

\* findNearestPizzerias as closed over the dataset cd and the radius maxDist
findNearestPizzerias(st, userLat, userLng, cd, maxDist) ==
    [st EXCEPT
        !.nearestPizzerias = Nearest(PizzeriasWithDistance(cd, userLat, userLng), maxDist),
        !.rankCall = [called |-> TRUE, userLat |-> userLat, userLng |-> userLng,
                      cityData |-> cd, maxDistance |-> maxDist]]

\* A getCurrentPosition call in flight is its origin ("auto" for the
\* auto-trigger effect, "button" for handleShowMyLocation) and the cityData
\* and maxDistance its callbacks close over.  Two fields record the order of
\* the calls, which the code keeps nowhere: `after`, the origins of the
\* calls in flight when this one was made, and `superseded`, set when a
\* call made after this one has had its result applied.
InFlight(requests) == { q.origin : q \in requests }

\* The calls left in flight when the result of the call r is applied
Supersede(requests, r) ==
    { [q EXCEPT !.superseded = @ \/ (q.origin \in r.after)] : q \in requests \ {r} }

\* "Auto-trigger location if permission is already granted"
AutoTriggerEffect(st, ch) ==
    IF \/ ch \cap {"autoTriggerLocation", "cityData"} = {}
       \/ ~st.autoTriggerLocation \/ ~st.isLeafletReady THEN st
    ELSE [st EXCEPT !.geoRequests =
            @ \cup {[origin |-> "auto", cityData |-> st.cityData,
                     maxDistance |-> st.maxDistance,
                     after |-> InFlight(st.geoRequests), superseded |-> FALSE]}]

\* "Re-calculate nearest pizzerias when maxDistance changes"
MaxDistanceEffect(st, ch) ==
    IF "maxDistance" \notin ch \/ st.userLocation = NoLocation THEN st
    ELSE findNearestPizzerias(st, st.userLocation[1].lat, st.userLocation[1].lng,
                              st.cityData, st.maxDistance)

\* The viewport tracking effect, on [isLeafletReady]: it calls updateViewport
ViewportEffect(st, ch) ==
    IF "isLeafletReady" \notin ch THEN st ELSE UpdateViewport(st)

\* The status text: 'Loading data...', 'Error loading data', or the counts
\* `${cities} cities, ${pizzerias} pizzerias, ${locations} locations` and, for
\* a selected city of the dataset, `${pizzerias} pizzerias, ${locations}
\* locations` (cities is 0 there).
StatsLoading == [text |-> "Loading data...", cities |-> 0, pizzerias |-> 0, locations |-> 0]
StatsError == [text |-> "Error loading data", cities |-> 0, pizzerias |-> 0, locations |-> 0]

StatsOf(cd, sel) ==
    IF sel # NoCity /\ HasCity(cd, sel)
    THEN [text |-> "city", cities |-> 0,
          pizzerias |-> Len(CityOf(cd, sel).pizzerias),
          locations |-> Len(Traverse(<< CityOf(cd, sel) >>))]
    ELSE [text |-> "all", cities |-> Len(cd),
          pizzerias |-> Len(Flatten([c \in 1..Len(cd) |-> cd[c].pizzerias])),
          locations |-> Len(Traverse(cd))]

\* A stats effect without the guard on the empty dataset
StatsEffect_NoGuard(st, ch) ==
    IF ch \cap {"cityData", "selectedCity"} = {} THEN st
    ELSE [st EXCEPT !.stats = StatsOf(st.cityData, st.selectedCity)]

\* Home: "Update stats", on [cityData, selectedCity]
StatsEffect(st, ch) ==
    IF ch \cap {"cityData", "selectedCity"} = {} \/ st.cityData = <<>> THEN st
    ELSE [st EXCEPT !.stats = StatsOf(st.cityData, st.selectedCity)]

\* The effects of one render whose changed dependencies are ch, in the
\* order of their declaration; the effects of FullMap run before those of
\* the page that renders it.
Effects(st, ch, fv) ==
  StatsEffect(
    MaxDistanceEffect(
      AutoTriggerEffect(
       SelectedLocationEffect(
        BookmarkIconEffect(
          ViewportEffect(
            FitOffEffect(
              FitOnEffect(
                MarkerUpdateEffect(st, ch, fv), ch), ch), ch), ch), ch), ch), ch), ch)

\* What a call of updateViewport changes for the next render: getBounds()
\* returns a new object every time, the zoom may be the old one.
ViewportDeps(oldZoom, newZoom) ==
    {"viewportBounds"} \cup (IF oldZoom # newZoom THEN {"zoomLevel"} ELSE {})

\* The render that the updateViewport of the viewport tracking effect causes
Rerender(a, ch, oldZoom, fv) ==
    IF "isLeafletReady" \in ch
    THEN Effects(a, ViewportDeps(oldZoom, a.zoomLevel), fv)
    ELSE a

\* A render with changed dependencies ch and its effects.
Commit(st, ch, fv) == Rerender(Effects(st, ch, fv), ch, st.zoomLevel, fv)

(***************************************************************************)
(* The state after the first render and its effects: the map is not        *)
(* created yet, the dataset is {}, the bookmarks are those of the          *)
(* browser's store, and shouldFitBoundsRef is false because on mount the   *)
(* effect that sets it to true runs before the one that sets it to false.  *)
(***************************************************************************)
InitialBookmarks == { <<>>, << Bm(<<"A">>, <<"R">>, 0) >> }

CompInit ==
    /\ cityData = <<>> /\ selectedCity = NoCity
    /\ bookmarks \in InitialBookmarks
    /\ maxDistance = 30 /\ autoTriggerLocation = FALSE
    /\ nearestPizzerias = <<>> /\ permissionQuery = "none"
    /\ isLeafletReady = FALSE /\ zoomLevel = 2
    /\ viewportBounds = NoBounds /\ userLocation = NoLocation
    /\ locating = FALSE /\ locationError = NoError
    /\ shouldFitBoundsRef = FALSE
    /\ markersRef = <<>> /\ markersMapRef = <<>> /\ clusterMarkersRef = <<>>
    /\ userLocationMarkerRef = <<>>
    /\ mapView = NoMap /\ mapEventPending = FALSE
    /\ zoomCapTimer = FALSE /\ errorTimer = FALSE
    /\ geoRequests = {}
    /\ allMarkers = <<>>
    /\ recompute = NoRecompute
    /\ mapLayers = NoLayers
    /\ stats = StatsLoading /\ allCities = <<>>
    /\ selectedLocation = <<>> /\ popupOpen = <<>> /\ popupTimers = {}
    /\ userActions = 0
    /\ rankCall = [called |-> FALSE, userLat |-> 0, userLng |-> 0,
                   cityData |-> <<>>, maxDistance |-> 0]

\* Home.renderNearestList with an empty search box: what the 'nearest' tab
\* shows for the list np and the radius maxDist
renderNearestList(np, maxDist) ==
    LET within(p) == WithinMax(p.distance, maxDist)
    IN  IF Len(np) = 0
        THEN [panel |-> "No location set", slider |-> FALSE, items |-> <<>>]
        ELSE [panel |-> IF SelectSeq(np, within) = <<>>
                        THEN "No pizzerias found within" ELSE "list",
              slider |-> TRUE,
              items |-> SelectSeq(np, within)]

\* A render with its effects; when fitBounds is called, fv ranges over the
\* views that hold every point handed to it.
Step(st0, ch) ==
    \E plain \in {Commit(st0, ch, InitialView)} :
        IF ~plain.fitUsed THEN Install(plain)
        ELSE \E fv \in Views : \E st1 \in {Commit(st0, ch, fv)} :
                st1.fitOk /\ Install(st1)

\* import('leaflet').then(...): icons, map, setIsLeafletReady(true)
LeafletLoaded ==
    /\ ~isLeafletReady
    /\ Step([St EXCEPT !.isLeafletReady = TRUE, !.mapView = InitialView],
            {"isLeafletReady"})

\* all_cities.json: the cities of the dataset and one more
AllCitiesFile(d) ==
    [c \in 1..Len(d) |-> [name |-> d[c].name, value |-> d[c].name]]
        \o << [name |-> <<"X">>, value |-> <<"X">>] >>

\* Object.keys(scrapedData).map(name => ({ name, value: name }))
CityOptions(d) == [c \in 1..Len(d) |-> [name |-> d[c].name, value |-> d[c].name]]

\* What Promise.all resolves to: [scrapedData, cities], cities being the
\* list of all_cities.json (<<list>>) or the null of its .catch (<<>>).
\* The first dataset comes with the list, the second without.
LoadResults ==
    { [scrapedData |-> DataRome, cities |-> << AllCitiesFile(DataRome) >>],
      [scrapedData |-> DataDash, cities |-> <<>>] }

\* Home: both fetches are over; the permission query starts
DataLoaded ==
    /\ cityData = <<>> /\ permissionQuery = "none" /\ stats = StatsLoading
    /\ \E r \in LoadResults :
          Step([St EXCEPT !.cityData = r.scrapedData, !.permissionQuery = "pending",
                          !.allCities = IF r.cities # <<>> THEN r.cities[1]
                                        ELSE CityOptions(r.scrapedData)],
               {"cityData"})

\* Home: the fetch of pizzeria_by_city.json fails, Promise.all rejects
DataFailed ==
    /\ cityData = <<>> /\ permissionQuery = "none" /\ stats = StatsLoading
    /\ Install([St EXCEPT !.stats = StatsError])

\* Home: navigator.permissions.query resolves
PermissionResolved ==
    /\ permissionQuery = "pending"
    /\ \E granted \in BOOLEAN :
          IF granted
          THEN Step([St EXCEPT !.permissionQuery = "done",
                               !.autoTriggerLocation = TRUE], {"autoTriggerLocation"})
          ELSE Install([St EXCEPT !.permissionQuery = "done"])

\* Home.handleCityChange
SelectCity ==
    \E c \in SelectableCities :
        /\ c # selectedCity /\ userActions < MaxUserActions
        /\ Step([St EXCEPT !.userActions = @ + 1, !.selectedCity = c,
                            !.selectedLocation = <<>>],
                {"selectedCity"} \cup (IF selectedLocation # <<>>
                                        THEN {"selectedLocation"} ELSE {}))

\* The entries of the sidebar the user clicks in the model: the first
\* location of the first pizzeria of the first and of the second city
ClickableLocations(cd) ==
    { t \in { <<1, 1, 1>>, <<2, 1, 1>> } : t[1] <= Len(cd) }

LocationKey(cd, t) ==
    MarkerKey(cd[t[1]].name, cd[t[1]].pizzerias[t[2]].name, t[3] - 1)

\* Home.handlePizzeriaClick / handleLocationClick
SelectLocation ==
    \E t \in ClickableLocations(cityData) :
        /\ selectedLocation # << LocationKey(cityData, t) >>
        /\ userActions < MaxUserActions
        /\ Step([St EXCEPT !.userActions = @ + 1,
                            !.selectedLocation = << LocationKey(cityData, t) >>],
                {"selectedLocation"})

\* setTimeout(() => { markersMapRef.current.get(selectedLocation)?.openPopup() }, 600)
PopupTimer ==
    \E key \in popupTimers :
        Install([St EXCEPT !.popupTimers = @ \ {key},
                           !.popupOpen = IF key \in DOMAIN markersMapRef
                                         THEN << key >> ELSE @])

\* toggleBookmark on the bookmark list
Toggled(bms, t) ==
    IF isLocationBookmarked(bms, t.pizzeriaName, t.city, t.locationIndex)
    THEN SelectSeq(bms, LAMBDA b : ~(/\ b.pizzeriaName = t.pizzeriaName
                                     /\ b.city = t.city
                                     /\ b.locationIndex = t.locationIndex))
    ELSE Append(bms, t)

\* The location a bookmark control is shown for exists in the dataset, or
\* the bookmark is listed in the bookmarks tab.
CanToggle(t) ==
    \/ isLocationBookmarked(bookmarks, t.pizzeriaName, t.city, t.locationIndex)
    \/ \E all \in {Traverse(cityData)} : \E k \in 1..Len(all) :
          /\ all[k].cityName = t.city /\ all[k].pizzeria.name = t.pizzeriaName
          /\ all[k].idx = t.locationIndex

\* Home.handleBookmarkToggle / the toggleBookmark event of a popup
ToggleBookmark ==
    \E t \in BookmarkTargets :
        /\ CanToggle(t) /\ userActions < MaxUserActions
        /\ Step([St EXCEPT !.userActions = @ + 1, !.bookmarks = Toggled(bookmarks, t)], {"bookmarks"})

\* Home: the distance slider, shown only while the nearest list is not empty
SetMaxDistance ==
    /\ nearestPizzerias # <<>>
    /\ \E m \in MaxDistances :
          /\ m # maxDistance /\ userActions < MaxUserActions
          /\ Step([St EXCEPT !.userActions = @ + 1, !.maxDistance = m], {"maxDistance"})

\* zoomend / moveend after the user zoomed or panned to the view v
UserMoveMap ==
    /\ isLeafletReady /\ userActions < MaxUserActions
    /\ \E v \in Views :
          Step(UpdateViewport([St EXCEPT !.userActions = @ + 1, !.mapView = v]),
               ViewportDeps(zoomLevel, v.zoom))

\* zoomend / moveend after fitBounds, setView or setZoom
MapEvent ==
    /\ mapEventPending
    /\ Step(UpdateViewport([St EXCEPT !.mapEventPending = FALSE]),
            ViewportDeps(zoomLevel, mapView.zoom))

\* setTimeout(() => { if (getZoom() > 13) setZoom(13) }, 100)
ZoomCapTimer ==
    /\ zoomCapTimer
    /\ Install([St EXCEPT
          !.zoomCapTimer = FALSE,
          !.mapView = IF mapView.zoom > ZoomCap THEN View(ZoomCap, mapView.bounds) ELSE @,
          !.mapEventPending = IF mapView.zoom > ZoomCap THEN TRUE ELSE @])

\* handleShowMyLocation
ClickLocate ==
    /\ isLeafletReady /\ ~locating /\ userActions < MaxUserActions
    /\ Install([St EXCEPT !.userActions = @ + 1,
          !.locating = TRUE, !.locationError = NoError,
          !.geoRequests = @ \cup {[origin |-> "button", cityData |-> cityData,
                                   maxDistance |-> maxDistance,
                                   after |-> InFlight(geoRequests),
                                   superseded |-> FALSE]}])

\* success callback of getCurrentPosition (auto-trigger effect or button)
GeoSuccess ==
    \E r \in geoRequests : \E u \in UserCoords :
        LET st0 == [St EXCEPT
                      !.geoRequests = Supersede(@, r),
                      !.userLocation = << u >>,
                      !.userLocationMarkerRef = << u >>,
                      !.mapView = View(LocateZoom, PointBounds(u.lat, u.lng)),
                      !.mapEventPending = TRUE,
                      !.locating = IF r.origin = "button" THEN FALSE ELSE @]
        IN  Install(findNearestPizzerias(st0, u.lat, u.lng, r.cityData, r.maxDistance))

\* An error callback that asks for the position again
GeoFailure_Retry ==
    \E r \in geoRequests :
        Install([St EXCEPT
            !.geoRequests = (@ \ {r}) \cup {[r EXCEPT !.cityData = cityData,
                                                      !.maxDistance = maxDistance]},
            !.locating = IF r.origin = "button" THEN FALSE ELSE @,
            !.locationError = IF r.origin = "button" THEN "error" ELSE @,
            !.errorTimer = IF r.origin = "button" THEN TRUE ELSE @])

\* An error callback that ranks from a default coordinate
GeoFailure_Ranks ==
    \E r \in geoRequests : \E u \in UserCoords :
        Install(findNearestPizzerias([St EXCEPT !.geoRequests = @ \ {r},
                                                !.locating = FALSE],
                                     u.lat, u.lng, r.cityData, r.maxDistance))

\* error callback of getCurrentPosition
GeoFailure ==
    \E r \in geoRequests :
        IF r.origin = "button"
        THEN Install([St EXCEPT !.geoRequests = @ \ {r}, !.locating = FALSE,
                                !.locationError = "error", !.errorTimer = TRUE])
        ELSE Install([St EXCEPT !.geoRequests = @ \ {r}])

\* setTimeout(() => setLocationError(null), 3000)
ErrorTimer ==
    /\ errorTimer
    /\ Install([St EXCEPT !.errorTimer = FALSE, !.locationError = NoError])

CmIdle == cmMarkers = <<>> /\ cmZoom = 0 /\ cmOut = <<>> /\ cmPc = "idle"

RkIdle == rkData = <<>> /\ rkUser = <<>> /\ rkMax = 0 /\ rkOut = <<>> /\ rkPc = "idle"

BkIdle == localStorage = <<>> /\ bkCall = <<>> /\ bkPrevCall = <<>>

Init == CompInit /\ CmIdle /\ RkIdle /\ BkIdle

Next ==
    \/ (LeafletLoaded /\ UNCHANGED harnessVars)
    \/ (DataLoaded /\ UNCHANGED harnessVars)
    \/ (DataFailed /\ UNCHANGED harnessVars)
    \/ (PermissionResolved /\ UNCHANGED harnessVars)
    \/ (SelectCity /\ UNCHANGED harnessVars)
    \/ (SelectLocation /\ UNCHANGED harnessVars)
    \/ (PopupTimer /\ UNCHANGED harnessVars)
    \/ (ToggleBookmark /\ UNCHANGED harnessVars)
    \/ (SetMaxDistance /\ UNCHANGED harnessVars)
    \/ (UserMoveMap /\ UNCHANGED harnessVars)
    \/ (MapEvent /\ UNCHANGED harnessVars)
    \/ (ZoomCapTimer /\ UNCHANGED harnessVars)
    \/ (ClickLocate /\ UNCHANGED harnessVars)
    \/ (GeoSuccess /\ UNCHANGED harnessVars)
    \/ (GeoFailure /\ UNCHANGED harnessVars)
    \/ (ErrorTimer /\ UNCHANGED harnessVars)

Spec == Init /\ [][Next]_vars

\* The harness of clusterMarkers, with the component idle
InitCluster == CmInit /\ RkIdle /\ BkIdle /\ CompInit /\ bookmarks = <<>>

CmNext == CmCall /\ UNCHANGED <<rkVars, bkVars, compVars>>

SpecCluster == InitCluster /\ [][CmNext]_vars


(***************************************************************************)
(* Harness: the ranking of findNearestPizzerias on every dataset of the    *)
(* model, every user coordinate of the distance table and a set of radii   *)
(* that holds 0; the component is idle.                                     *)
(***************************************************************************)
RkLats == {1, 2, 9}
RkLngs == 1..4
RkRadii == {0, 5, 30, 100}

RkInit ==
    /\ rkData \in Datasets \cup {<<>>}
    /\ rkUser \in [lat : RkLats, lng : RkLngs]
    /\ rkMax \in RkRadii
    /\ rkOut = <<>>
    /\ rkPc = "call"

RkCall ==
    /\ rkPc = "call"
    /\ rkOut' = Nearest(PizzeriasWithDistance(rkData, rkUser.lat, rkUser.lng), rkMax)
    /\ rkPc' = "done"
    /\ UNCHANGED <<rkData, rkUser, rkMax>>

InitRank == RkInit /\ CmIdle /\ BkIdle /\ CompInit /\ bookmarks = <<>>

RkNext == RkCall /\ UNCHANGED <<cmVars, bkVars, compVars>>

SpecRank == InitRank /\ [][RkNext]_vars


(***************************************************************************)
(* Harness: the bookmark utilities on the localStorage item.  The item is  *)
(* null or the JSON text of a list; JSON.stringify and JSON.parse return   *)
(* the three identifying fields of a bookmark (two strings and an integer) *)
(* as they were, so the item is kept as the list it encodes.  setItem can  *)
(* throw (quota exceeded, storage disabled); writeOk is that outcome.      *)
(***************************************************************************)
getBookmarks(store) == IF store = <<>> THEN <<>> ELSE store[1]

saveBookmarks(store, bms, writeOk) == IF writeOk THEN << bms >> ELSE store

SameBookmark(b, location) ==
    /\ b.pizzeriaName = location.pizzeriaName
    /\ b.city = location.city
    /\ b.locationIndex = location.locationIndex

\* addBookmark: the store after the call and the list returned
addBookmark(store, location, writeOk) ==
    IF ~ \E b \in 1..Len(getBookmarks(store)) :
             SameBookmark(getBookmarks(store)[b], location)
    THEN [store |-> saveBookmarks(store, Append(getBookmarks(store), location), writeOk),
          bookmarks |-> Append(getBookmarks(store), location)]
    ELSE [store |-> store, bookmarks |-> getBookmarks(store)]

\* removeBookmark: the store after the call and the list returned
removeBookmark(store, location, writeOk) ==
    [store |-> saveBookmarks(store,
                             SelectSeq(getBookmarks(store),
                                       LAMBDA b : ~SameBookmark(b, location)),
                             writeOk),
     bookmarks |-> SelectSeq(getBookmarks(store), LAMBDA b : ~SameBookmark(b, location))]

isBookmarked(store, location) ==
    \E b \in 1..Len(getBookmarks(store)) : SameBookmark(getBookmarks(store)[b], location)

\* toggleBookmark: the store after the call and the { bookmarks, isBookmarked } returned
toggleBookmark(store, location, writeOk) ==
    IF isBookmarked(store, location)
    THEN [store |-> removeBookmark(store, location, writeOk).store,
          bookmarks |-> removeBookmark(store, location, writeOk).bookmarks,
          isBookmarked |-> FALSE]
    ELSE [store |-> addBookmark(store, location, writeOk).store,
          bookmarks |-> addBookmark(store, location, writeOk).bookmarks,
          isBookmarked |-> TRUE]

\* The item of a browser that never stored a bookmark, or that of an earlier visit
BkInit ==
    /\ localStorage \in { <<>>, << << Bm(<<"A">>, <<"R">>, 0) >> >> }
    /\ bkCall = <<>>
    /\ bkPrevCall = <<>>

\* handleToggleBookmark: one call of toggleBookmark
BkToggle ==
    \E location \in BookmarkTargets : \E writeOk \in BOOLEAN :
        /\ localStorage' = toggleBookmark(localStorage, location, writeOk).store
        /\ bkCall' = << [location |-> location, before |-> localStorage,
                         writeOk |-> writeOk,
                         bookmarks |-> toggleBookmark(localStorage, location, writeOk).bookmarks,
                         isBookmarked |->
                             toggleBookmark(localStorage, location, writeOk).isBookmarked] >>
        /\ bkPrevCall' = bkCall

InitBookmarks == BkInit /\ CmIdle /\ RkIdle /\ CompInit /\ bookmarks = <<>>

BkNext == BkToggle /\ UNCHANGED <<cmVars, rkVars, compVars>>

SpecBookmarks == InitBookmarks /\ [][BkNext]_vars

(***************************************************************************)
(* Claims about clusterMarkers (specification SpecCluster)                 *)
(***************************************************************************)
CmDone == cmPc = "done"

\* The groups of cmOut that hold the marker at input position k.
CmGroupsOf(k) ==
    { g \in 1..Len(cmOut) : \E p \in 1..Len(cmOut[g]) : cmOut[g][p] = cmMarkers[k] }

\* C1: every bookmarked input point is in exactly one group of the output and
\* that group has size 1, at every zoom level and whatever the other points
\* are (also when they have the same coordinates).
C1_BookmarkedSingleton ==
    CmDone =>
        \A k \in 1..Len(cmMarkers) :
            cmMarkers[k].isBookmarked =>
                /\ Cardinality(CmGroupsOf(k)) = 1
                /\ \A g \in CmGroupsOf(k) : cmOut[g] = <<cmMarkers[k]>>

\* A bookmarked point between two unbookmarked points with its coordinates,
\* below the off threshold: the two others merge around it.
C1_Witness ==
    /\ CmDone
    /\ cmZoom < OffZoom
    /\ \E k \in 1..Len(cmMarkers) : \E i \in 1..(k - 1) : \E j \in (k + 1)..Len(cmMarkers) :
          /\ cmMarkers[k].isBookmarked
          /\ ~cmMarkers[i].isBookmarked /\ ~cmMarkers[j].isBookmarked
          /\ SqDist(cmMarkers[i], cmMarkers[k]) = 0
          /\ SqDist(cmMarkers[j], cmMarkers[k]) = 0
          /\ \E g \in 1..Len(cmOut) : Len(cmOut[g]) = 2

\* C2: at zoom >= 16 the output is one singleton group per input point, in
\* input order, whatever the coordinates and bookmark flags.
C2_OffZoomIdentity ==
    (CmDone /\ cmZoom >= OffZoom) =>
        /\ Len(cmOut) = Len(cmMarkers)
        /\ \A k \in 1..Len(cmMarkers) : cmOut[k] = <<cmMarkers[k]>>

\* Three points at zoom >= 16, two of them unbookmarked at one coordinate.
C2_Witness ==
    /\ CmDone
    /\ cmZoom >= OffZoom
    /\ Len(cmMarkers) = 3
    /\ Len(cmOut) = 3
    /\ \E i, j \in 1..3 :
          /\ i < j
          /\ ~cmMarkers[i].isBookmarked /\ ~cmMarkers[j].isBookmarked
          /\ SqDist(cmMarkers[i], cmMarkers[j]) = 0

\* The reference of C3, stated without the loops.  RefNear is the distance
\* test written from the formula of the claim:
\*   sqrt(d2)/4 * 2^zoom * 256/360 < T  <=>  d2 * (2^(zoom+3))^2 < (45 T)^2
\*                                      <=>  d2 <= ((45 T)^2 - 1) \div 4^(zoom+3)
RefNear(mi, mj, zoom) ==
    LET n == 45 * pixelDistance(zoom)
        b == Pow2(zoom + 3)
        d2 == SqDist(mi, mj)
    IN  /\ n > 0
        /\ IF b > n THEN d2 = 0 ELSE d2 <= (n * n - 1) \div (b * b)

\* RefHead(markers, zoom)[k]: point k starts a group.  A point starts a group
\* unless an earlier unbookmarked group starter is near it; a bookmarked
\* point always starts (and is) its own group.
RECURSIVE RefHeadUpTo(_, _, _)
RefHeadUpTo(markers, zoom, n) ==
    IF n = 0 THEN <<>>
    ELSE LET h == RefHeadUpTo(markers, zoom, n - 1)
         IN  Append(h,
                \/ markers[n].isBookmarked
                \/ ~\E i \in 1..(n - 1) :
                      /\ h[i]
                      /\ ~markers[i].isBookmarked
                      /\ RefNear(markers[i], markers[n], zoom))

RefHead(markers, zoom) == RefHeadUpTo(markers, zoom, Len(markers))

\* The group of head i: i, then in input order every later point that is no
\* head and whose first near unbookmarked head is i.
RefOwner(markers, zoom, k) ==
    LET h == RefHead(markers, zoom)
        c == { i \in 1..(k - 1) :
                 h[i] /\ ~markers[i].isBookmarked
                      /\ RefNear(markers[i], markers[k], zoom) }
    IN  CHOOSE i \in c : \A i2 \in c : i <= i2

RefGroup(markers, zoom, i) ==
    LET h == RefHead(markers, zoom)
        member(k) == k = i \/ (k > i /\ ~h[k] /\ RefOwner(markers, zoom, k) = i)
        idx == SelectSeq([k \in 1..Len(markers) |-> k], member)
    IN  [p \in 1..Len(idx) |-> markers[idx[p]]]

RefClusters(markers, zoom) ==
    LET h == RefHead(markers, zoom)
        isHead(k) == h[k]
        heads == SelectSeq([k \in 1..Len(markers) |-> k], isHead)
    IN  [g \in 1..Len(heads) |-> RefGroup(markers, zoom, heads[g])]

\* C3: below the off threshold the output equals the greedy single-pass
\* reference: groups in the order of their first member, each holding its
\* first member i and exactly the later unused unbookmarked points whose pixel
\* distance to i (not to later members) is strictly below the threshold.
C3_GreedyReference ==
    (CmDone /\ cmZoom < OffZoom) => cmOut = RefClusters(cmMarkers, cmZoom)

\* A chain: A near B, B near C, A not near C, none bookmarked; C stays alone.
C3_Witness ==
    /\ CmDone
    /\ cmZoom < OffZoom
    /\ Len(cmMarkers) = 3
    /\ \A k \in 1..3 : ~cmMarkers[k].isBookmarked
    /\ RefNear(cmMarkers[1], cmMarkers[2], cmZoom)
    /\ RefNear(cmMarkers[2], cmMarkers[3], cmZoom)
    /\ ~RefNear(cmMarkers[1], cmMarkers[3], cmZoom)
    /\ cmOut = << <<cmMarkers[1], cmMarkers[2]>>, <<cmMarkers[3]>> >>

\* C4: the threshold never grows with the zoom level and is 0 from the off
\* cutoff on.
C4_ThresholdMonotone ==
    /\ \A z2 \in cmZoom..MaxZoom : pixelDistance(cmZoom) >= pixelDistance(z2)
    /\ cmZoom >= OffZoom => pixelDistance(cmZoom) = 0

\* The last step of the step function: 15 pixels at zoom 15, 0 at zoom 16.
C4_Witness ==
    /\ CmDone
    /\ cmZoom + 1 = OffZoom
    /\ pixelDistance(cmZoom) > 0
    /\ pixelDistance(cmZoom + 1) = 0

(***************************************************************************)
(* Claims about the marker update effect and findNearestPizzerias          *)
(* (Spec).  A dataset location is named by its position <<c, p, l>>:       *)
(* city c, pizzeria p of the city, location l of the pizzeria.             *)
(***************************************************************************)
DatasetTriples(cd) ==
    UNION { UNION { { <<c, p, l>> : l \in 1..Len(cd[c].pizzerias[p].locations) }
                    : p \in 1..Len(cd[c].pizzerias) }
            : c \in 1..Len(cd) }

TripleLocation(cd, t) == cd[t[1]].pizzerias[t[2]].locations[t[3]]

TripleEntry(cd, t) ==
    [cityName |-> cd[t[1]].name, name |-> cd[t[1]].pizzerias[t[2]].name,
     idx |-> t[3] - 1, location |-> TripleLocation(cd, t)]

HasCoordinates(location) == ~(location.lat = 0 \/ location.lng = 0)

\* The city filter names a city of the dataset and it is another one
FilteredOut(cd, sel, cityName) ==
    /\ sel # NoCity
    /\ \E c \in 1..Len(cd) : cd[c].name = sel
    /\ cityName # sel

\* b grown by half its height to the south and north and by half its width
\* to the west and east, borders included
InExpanded(b, location) ==
    /\ 2 * location.lat >= 3 * b.s - b.n /\ 2 * location.lat <= 3 * b.n - b.s
    /\ 2 * location.lng >= 3 * b.w - b.e /\ 2 * location.lng <= 3 * b.e - b.w

InRaw(b, location) ==
    /\ location.lat >= b.s /\ location.lat <= b.n
    /\ location.lng >= b.w /\ location.lng <= b.e

WorkingSetEntries ==
    { [cityName |-> allMarkers[k].data.cityName,
       name |-> allMarkers[k].data.pizzeria.name,
       idx |-> allMarkers[k].data.idx,
       location |-> allMarkers[k].data.location] : k \in 1..Len(allMarkers) }

RECURSIVE TotalUpTo(_, _)
TotalUpTo(f, n) == IF n = 0 THEN 0 ELSE f[n] + TotalUpTo(f, n - 1)

GroupsOfSize(groups, isWanted(_)) ==
    LET pick == { k \in 1..Len(groups) : isWanted(Len(groups[k])) }
        nth(i) == CHOOSE k \in pick : Cardinality({ k2 \in pick : k2 < k }) = i - 1
    IN  [i \in 1..Cardinality(pick) |-> groups[nth(i)]]

LastGroups == clusterMarkers(allMarkers, recompute.zoom)

\* C5: after a recompute, the k-th aggregate marker stands for the k-th
\* group of more than one member: its position is the arithmetic mean of
\* the members' latitudes and of their longitudes and its badge is the
\* number of members; the k-th plain marker stands for the k-th group of one
\* member and sits at that member's own coordinate.
C5_CentroidAndBadge ==
    recompute.ran =>
        LET multi == GroupsOfSize(LastGroups, LAMBDA n : n > 1)
            single == GroupsOfSize(LastGroups, LAMBDA n : n = 1)
        IN  /\ Len(clusterMarkersRef) = Len(multi)
            /\ \A k \in 1..Len(multi) :
                  LET g == multi[k]
                      a == clusterMarkersRef[k]
                  IN  /\ a.count = Len(g)
                      /\ a.latNum * Len(g) = a.den * TotalUpTo([i \in 1..Len(g) |-> g[i].lat], Len(g))
                      /\ a.lngNum * Len(g) = a.den * TotalUpTo([i \in 1..Len(g) |-> g[i].lng], Len(g))
            /\ Len(markersRef) = Len(single)
            /\ \A k \in 1..Len(single) :
                  /\ markersRef[k].latNum = markersRef[k].den * single[k][1].lat
                  /\ markersRef[k].lngNum = markersRef[k].den * single[k][1].lng
                  /\ markersRef[k].data = single[k][1].data

\* An aggregate of three members that are not all at one coordinate, next
\* to a plain marker: its mean is at none of its members.
C5_Witness ==
    /\ recompute.ran
    /\ markersRef # <<>>
    /\ \E k \in 1..Len(clusterMarkersRef) :
          LET a == clusterMarkersRef[k]
          IN  /\ a.count = 3
              /\ \A i \in 1..Len(a.members) : a.latNum # a.den * a.members[i].lat

C6_Expected(needCoordinates) ==
    { TripleEntry(cityData, t) : t \in
        { t \in DatasetTriples(cityData) :
            /\ ~FilteredOut(cityData, selectedCity, cityData[t[1]].name)
            /\ needCoordinates => HasCoordinates(TripleLocation(cityData, t))
            /\ viewportBounds # NoBounds =>
                  InExpanded(viewportBounds[1], TripleLocation(cityData, t)) } }

\* C6 as stated: the working set of a recompute holds exactly every
\* location of the displayed cities that lies inside the viewport bounds
\* grown by 50% (every location of the displayed cities when no bounds are
\* known).
C6_WorkingSet_AsStated ==
    recompute.ran =>
        /\ WorkingSetEntries = C6_Expected(FALSE)
        /\ Len(allMarkers) = Cardinality(WorkingSetEntries)

\* C6, amended: the working set of a recompute holds exactly every location
\* of the displayed cities that has a non-zero latitude and a non-zero
\* longitude and lies inside the viewport bounds grown by 50% (every such
\* location of the displayed cities when no bounds are known), each once.
C6_WorkingSet ==
    recompute.ran =>
        /\ WorkingSetEntries = C6_Expected(TRUE)
        /\ Len(allMarkers) = Cardinality(WorkingSetEntries)

\* A recompute with known bounds that keeps a location only the padding
\* reaches and drops a location with coordinates of a displayed city.
C6_Witness ==
    /\ recompute.ran /\ viewportBounds # NoBounds
    /\ \E k \in 1..Len(allMarkers) : ~InRaw(viewportBounds[1], allMarkers[k].data.location)
    /\ \E t \in DatasetTriples(cityData) :
          /\ ~FilteredOut(cityData, selectedCity, cityData[t[1]].name)
          /\ HasCoordinates(TripleLocation(cityData, t))
          /\ TripleEntry(cityData, t) \notin WorkingSetEntries

NoneInExpanded ==
    /\ viewportBounds # NoBounds
    /\ \A t \in DatasetTriples(cityData) :
          ~InExpanded(viewportBounds[1], TripleLocation(cityData, t))

\* C7: after a recompute with padded viewport bounds that hold no location
\* of the dataset, the working set is empty, no plain marker and no
\* aggregate marker is rendered, and clusterMarkers returns the empty list
\* for the empty list at every zoom level.
C7_EmptyWorkingSet ==
    (recompute.ran /\ NoneInExpanded) =>
        /\ allMarkers = <<>>
        /\ \A z \in Zooms : clusterMarkers(allMarkers, z) = <<>>
        /\ markersRef = <<>> /\ clusterMarkersRef = <<>>
        /\ DOMAIN markersMapRef = {}

\* A recompute of a loaded dataset whose locations are all outside the
\* padded bounds.
C7_Witness ==
    /\ recompute.ran /\ NoneInExpanded
    /\ DatasetTriples(cityData) # {}
    /\ \E t \in DatasetTriples(cityData) : HasCoordinates(TripleLocation(cityData, t))

\* The location of the dataset cd an entry stands for, at the entry's index
AtOwnIndex(cd, cityName, name, location, key) ==
    \E t \in DatasetTriples(cd) :
        /\ cd[t[1]].name = cityName /\ cd[t[1]].pizzerias[t[2]].name = name
        /\ TripleLocation(cd, t) = location
        /\ key = cityName \o <<"-">> \o name \o <<"-">> \o IdxStr(t[3] - 1)

\* C8: a location with a zero (missing) latitude or longitude is in no
\* group of the working set, has no marker, is in no aggregate and is not
\* in the nearest list; every plain marker and every item of the nearest
\* list carries the key with the index its location has in the pizzeria's
\* location list of the dataset, the unusable locations counted.
C8_MalformedSkipped ==
    /\ \A k \in 1..Len(allMarkers) : HasCoordinates(allMarkers[k].data.location)
    /\ recompute.ran =>
          \A k \in 1..Len(LastGroups) : \A i \in 1..Len(LastGroups[k]) :
              HasCoordinates(LastGroups[k][i].data.location)
    /\ \A k \in 1..Len(markersRef) :
          /\ HasCoordinates(markersRef[k].data.location)
          /\ AtOwnIndex(cityData, markersRef[k].data.cityName,
                        markersRef[k].data.pizzeria.name,
                        markersRef[k].data.location, markersRef[k].key)
    /\ \A k \in 1..Len(clusterMarkersRef) : \A i \in 1..Len(clusterMarkersRef[k].members) :
          HasCoordinates(clusterMarkersRef[k].members[i].data.location)
    /\ \A k \in 1..Len(nearestPizzerias) :
          /\ HasCoordinates(nearestPizzerias[k].location)
          /\ AtOwnIndex(rankCall.cityData, nearestPizzerias[k].city,
                        nearestPizzerias[k].name, nearestPizzerias[k].location,
                        nearestPizzerias[k].markerKey)

\* The location after an unusable one of the same pizzeria has a marker and
\* an item of the nearest list, both with the index 2.
C8_Witness ==
    /\ \E t \in DatasetTriples(cityData) : ~HasCoordinates(TripleLocation(cityData, t))
    /\ \E k \in 1..Len(markersRef) :
          /\ markersRef[k].data.location.address = "a3"
          /\ markersRef[k].key = <<"R", "-", "A", "-", "2">>
    /\ \E k \in 1..Len(nearestPizzerias) :
          /\ nearestPizzerias[k].location.address = "a3"
          /\ nearestPizzerias[k].markerKey = <<"R", "-", "A", "-", "2">>

KmToDm(km) == 10000 * km

\* C9: the list passed to onNearestPizzeriasUpdate is in non-decreasing
\* order of distance and has no item farther than the maxDistance the
\* computation used.
C9_SortedWithinRadius ==
    rankCall.called =>
        /\ \A i \in 1..Len(nearestPizzerias) : \A j \in 1..Len(nearestPizzerias) :
              i < j => nearestPizzerias[i].distance <= nearestPizzerias[j].distance
        /\ \A i \in 1..Len(nearestPizzerias) :
              nearestPizzerias[i].distance <= KmToDm(rankCall.maxDistance)

RankedTriples ==
    { t \in DatasetTriples(rankCall.cityData) :
        /\ HasCoordinates(TripleLocation(rankCall.cityData, t))
        /\ calculateDistance(rankCall.userLat, rankCall.userLng,
                             TripleLocation(rankCall.cityData, t).lat,
                             TripleLocation(rankCall.cityData, t).lng)
              <= KmToDm(rankCall.maxDistance) }

\* A list of at least two distances whose first two locations are not
\* neighbours in the dataset's order, with a location left out for its
\* distance.
C9_Witness ==
    /\ rankCall.called /\ Len(nearestPizzerias) >= 3
    /\ nearestPizzerias[1].location.address = "a1"
    /\ nearestPizzerias[2].location.address = "b1"
    /\ nearestPizzerias[1].distance < nearestPizzerias[3].distance
    /\ \E t \in DatasetTriples(rankCall.cityData) :
          /\ HasCoordinates(TripleLocation(rankCall.cityData, t))
          /\ t \notin RankedTriples

\* C10: the list passed to onNearestPizzeriasUpdate has exactly one item
\* for every location of the whole dataset that has coordinates and is
\* within maxDistance of the user, whatever the viewport bounds, the zoom
\* and the city filter; the item carries the location's city, pizzeria
\* name, distance and the marker key made of city, pizzeria name and index.
C10_RankedExactly ==
    rankCall.called =>
        LET cd == rankCall.cityData
            itemOf(t) ==
                { k \in 1..Len(nearestPizzerias) :
                    /\ nearestPizzerias[k].location = TripleLocation(cd, t)
                    /\ nearestPizzerias[k].city = cd[t[1]].name
                    /\ nearestPizzerias[k].name = cd[t[1]].pizzerias[t[2]].name }
        IN  /\ Len(nearestPizzerias) = Cardinality(RankedTriples)
            /\ \A t \in RankedTriples :
                  /\ Cardinality(itemOf(t)) = 1
                  /\ \A k \in itemOf(t) :
                        /\ nearestPizzerias[k].markerKey =
                              cd[t[1]].name \o <<"-">> \o cd[t[1]].pizzerias[t[2]].name
                                  \o <<"-">> \o IdxStr(t[3] - 1)
                        /\ nearestPizzerias[k].distance =
                              calculateDistance(rankCall.userLat, rankCall.userLng,
                                                TripleLocation(cd, t).lat,
                                                TripleLocation(cd, t).lng)

\* A ranking of the current dataset with an item of a city the filter
\* hides and an item outside the working set of the viewport.
C10_Witness ==
    /\ rankCall.called /\ rankCall.cityData = cityData /\ recompute.ran
    /\ viewportBounds # NoBounds
    /\ \E k \in 1..Len(nearestPizzerias) :
          FilteredOut(cityData, selectedCity, nearestPizzerias[k].city)
    /\ \E k \in 1..Len(nearestPizzerias) :
          \A m \in 1..Len(allMarkers) :
              allMarkers[m].data.location # nearestPizzerias[k].location

(***************************************************************************)
(* Claims about the ranking alone (SpecRank)                               *)
(***************************************************************************)
RkDone == rkPc = "done"

\* The position in rkData of the location an item of the list stands for
RkTripleOf(item) ==
    CHOOSE t \in DatasetTriples(rkData) : TripleLocation(rkData, t) = item.location

\* City order, then pizzeria order, then location index
TripleBefore(t1, t2) ==
    \/ t1[1] < t2[1]
    \/ t1[1] = t2[1] /\ t1[2] < t2[2]
    \/ t1[1] = t2[1] /\ t1[2] = t2[2] /\ t1[3] < t2[3]

RkDistanceOf(t) ==
    calculateDistance(rkUser.lat, rkUser.lng,
                      TripleLocation(rkData, t).lat, TripleLocation(rkData, t).lng)

\* C11: two items of the ranked list with the same distance stand in the
\* order of the dataset traversal (city, then pizzeria, then location
\* index).
C11_TiesInTraversalOrder ==
    RkDone =>
        \A i \in 1..Len(rkOut) : \A j \in 1..Len(rkOut) :
            (i < j /\ rkOut[i].distance = rkOut[j].distance)
                => TripleBefore(RkTripleOf(rkOut[i]), RkTripleOf(rkOut[j]))

\* A list with two items at one distance in which the sort also moved an
\* item in front of one that precedes it in the dataset.
C11_Witness ==
    /\ RkDone
    /\ \E i \in 1..Len(rkOut) : \E j \in 1..Len(rkOut) :
          i < j /\ rkOut[i].distance = rkOut[j].distance
    /\ \E i \in 1..Len(rkOut) : \E j \in 1..Len(rkOut) :
          i < j /\ TripleBefore(RkTripleOf(rkOut[j]), RkTripleOf(rkOut[i]))

\* C12 as stated: with a radius of 0 the ranked list is empty for every
\* dataset and every user coordinate, also when the user stands exactly on
\* a location.
C12_ZeroRadiusEmpty ==
    (RkDone /\ rkMax = 0) => rkOut = <<>>

\* C12 as the code has it: with a radius of 0 the ranked list holds exactly
\* the locations with coordinates that lie at the user's coordinate, each
\* once; it is empty only when there is none.
C12_ZeroRadiusExact ==
    (RkDone /\ rkMax = 0) =>
        /\ \A k \in 1..Len(rkOut) : rkOut[k].distance = 0
        /\ \A t \in DatasetTriples(rkData) :
              (HasCoordinates(TripleLocation(rkData, t)) /\ RkDistanceOf(t) = 0)
                  => Cardinality({ k \in 1..Len(rkOut) :
                                     rkOut[k].location = TripleLocation(rkData, t) }) = 1
        /\ Len(rkOut) = Cardinality({ t \in DatasetTriples(rkData) :
                                        /\ HasCoordinates(TripleLocation(rkData, t))
                                        /\ RkDistanceOf(t) = 0 })

\* Radius 0, the user on the coordinate of two locations: both are ranked.
C12_Witness ==
    /\ RkDone /\ rkMax = 0
    /\ Len(rkOut) = 2
    /\ rkOut[1].distance = 0 /\ rkOut[2].distance = 0

\* C13: the radius is inclusive: every location with coordinates whose
\* distance is at most the radius, the radius itself included, is in the
\* ranked list; so with radius 0 a location at distance 0 is in it.
C13_RadiusInclusive ==
    RkDone =>
        \A t \in DatasetTriples(rkData) :
            (HasCoordinates(TripleLocation(rkData, t)) /\ RkDistanceOf(t) <= KmToDm(rkMax))
                => \E k \in 1..Len(rkOut) :
                      /\ rkOut[k].location = TripleLocation(rkData, t)
                      /\ rkOut[k].distance = RkDistanceOf(t)

\* Radius 0 and a location exactly at the user's coordinate, ranked.
C13_Witness ==
    /\ RkDone /\ rkMax = 0
    /\ \E t \in DatasetTriples(rkData) :
          /\ HasCoordinates(TripleLocation(rkData, t))
          /\ RkDistanceOf(t) = KmToDm(rkMax)
    /\ rkOut # <<>> /\ rkOut[1].distance = 0

(***************************************************************************)
(* Claims about the component and the page (Spec), continued              *)
(***************************************************************************)
\* Nothing is left to happen by itself: both loads and the permission query
\* are over, no geolocation request is in flight, no map event and no timer
\* is pending.
Quiescent ==
    /\ isLeafletReady /\ cityData # <<>> /\ permissionQuery = "done"
    /\ geoRequests = {} /\ ~mapEventPending /\ ~zoomCapTimer /\ ~errorTimer

\* The ranking of the current dataset for the current user coordinate and
\* the current maxDistance
CurrentRanking ==
    Nearest(PizzeriasWithDistance(cityData, userLocation[1].lat, userLocation[1].lng),
            maxDistance)

\* C14 as stated: once every pending event is processed and the user
\* coordinate is known, the list last passed to onNearestPizzeriasUpdate is
\* the ranking of the current dataset for the latest user coordinate and
\* the current maxDistance.
C14_ListFollowsInputs ==
    (Quiescent /\ userLocation # NoLocation) => nearestPizzerias = CurrentRanking

\* C15: as long as no geolocation request has succeeded (the user
\* coordinate is unknown), onNearestPizzeriasUpdate has never been called.
C15_NoRankingBeforeSuccess ==
    userLocation = NoLocation => (~rankCall.called /\ nearestPizzerias = <<>>)

\* Map and data are there and a geolocation request has failed; no list has
\* been published.
C15_Witness ==
    /\ isLeafletReady /\ cityData # <<>> /\ userLocation = NoLocation
    /\ locationError # NoError /\ geoRequests = {}
    /\ ~rankCall.called

\* The groups of one and the larger groups of the last marker update
LastSingles == SelectSeq(LastGroups, isSingle)
LastMultis == SelectSeq(LastGroups, isMulti)

\* C16 as stated: in a marker update, a marker whose key was rendered before
\* and is in the new partition is kept: it is neither removed from the map
\* nor made anew.
C16_KeptInPlace ==
    recompute.ran =>
        \A key \in recompute.before \cap KeysOf(markersRef) :
            key \notin recompute.destroyed /\ key \notin recompute.created

\* C17: after a marker update the markers on the map are one for each group
\* of the new partition: the keys of markersMapRef are the keys of the
\* groups of one, markersRef holds one marker for each of them,
\* clusterMarkersRef one for each larger group, and the map holds these
\* markers and no other.
C17_HandlesMatchPartition ==
    recompute.ran =>
        /\ DOMAIN markersMapRef =
              { MarkerKey(LastSingles[k][1].data.cityName,
                          LastSingles[k][1].data.pizzeria.name,
                          LastSingles[k][1].data.idx) : k \in 1..Len(LastSingles) }
        /\ Len(markersRef) = Len(LastSingles)
        /\ \A k \in 1..Len(LastSingles) : markersRef[k].data = LastSingles[k][1].data
        /\ Len(clusterMarkersRef) = Len(LastMultis)
        /\ \A k \in 1..Len(LastMultis) : clusterMarkersRef[k].members = LastMultis[k]
        /\ mapLayers.markers = { LastSingles[k][1].data : k \in 1..Len(LastSingles) }
        /\ Cardinality(mapLayers.markers) = Len(LastSingles)
        /\ mapLayers.clusters = { LastMultis[k] : k \in 1..Len(LastMultis) }
        /\ Cardinality(mapLayers.clusters) = Len(LastMultis)

\* A marker update that found markers of an earlier partition, one of them
\* with a key that the new partition has no group of one for, and that left
\* both a marker and a cluster marker.
C17_Witness ==
    /\ recompute.ran
    /\ recompute.before \ DOMAIN markersMapRef # {}
    /\ Len(markersRef) >= 1 /\ Len(clusterMarkersRef) >= 1

\* C18 as stated: a marker update in a render in which only the zoom, the
\* viewport bounds or the bookmarks changed does not call fitBounds.
C18_NoFitOnPanZoomBookmark ==
    recompute.fit => ~(recompute.fitDeps \subseteq {"zoomLevel", "viewportBounds", "bookmarks"})

\* C19 as stated: after the effects of a render, every marker of a group of
\* one shows the bookmarked icon exactly when its (pizzeria name, city,
\* location index) is in the bookmark list, whatever characters the names
\* hold.
C19_IconsFollowBookmarks ==
    \A k \in 1..Len(markersRef) :
        (markersRef[k].icon = BookmarkedIcon)
            <=> isLocationBookmarked(bookmarks, markersRef[k].data.pizzeria.name,
                                     markersRef[k].data.cityName, markersRef[k].data.idx)

\* Two locations of the dataset, the places of <<city, pizzeria, location>>
\* in it, are told apart by their marker keys
KeyOfTriple(cd, t) ==
    MarkerKey(TripleEntry(cd, t).cityName, TripleEntry(cd, t).name, TripleEntry(cd, t).idx)

\* C20 as stated: two different (city name, pizzeria name, location index)
\* of the dataset never have the same marker key.
C20_KeyInjective ==
    \A t1 \in DatasetTriples(cityData) : \A t2 \in DatasetTriples(cityData) :
        t1 # t2 => KeyOfTriple(cityData, t1) # KeyOfTriple(cityData, t2)

CmPlacesOf(k) ==
    { gp \in UNION { { <<g, p>> : p \in 1..Len(cmOut[g]) } : g \in 1..Len(cmOut) } :
        cmOut[gp[1]][gp[2]] = cmMarkers[k] }

\* C27: the output of clusterMarkers is a partition of the input: every
\* input point is at exactly one place of exactly one group, no group is
\* empty, every member is an input point, the group sizes sum to the number
\* of input points, the groups are in the order of the input index of their
\* first member and the members of a group are in input order.
C27_Partition ==
    CmDone =>
        /\ \A k \in 1..Len(cmMarkers) : Cardinality(CmPlacesOf(k)) = 1
        /\ \A g \in 1..Len(cmOut) :
              /\ Len(cmOut[g]) >= 1
              /\ \A p \in 1..Len(cmOut[g]) :
                    \E k \in 1..Len(cmMarkers) : cmOut[g][p] = cmMarkers[k]
              /\ \A p \in 1..Len(cmOut[g]) : \A q \in 1..Len(cmOut[g]) :
                    p < q => cmOut[g][p].data < cmOut[g][q].data
        /\ TotalUpTo([g \in 1..Len(cmOut) |-> Len(cmOut[g])], Len(cmOut)) = Len(cmMarkers)
        /\ \A g \in 1..Len(cmOut) : \A g2 \in 1..Len(cmOut) :
              g < g2 => cmOut[g][1].data < cmOut[g2][1].data

\* Three points, the first and the third in one group around the second.
C27_Witness ==
    /\ CmDone
    /\ Len(cmMarkers) = 3
    /\ cmOut = << <<cmMarkers[1], cmMarkers[3]>>, <<cmMarkers[2]>> >>

(***************************************************************************)
(* Claims about the component and the page (Spec), continued              *)
(***************************************************************************)
\* C28 as stated: a marker update in a render in which cityData or
\* selectedCity changed and that puts at least one marker on the map calls
\* fitBounds in that same update.
C28_FitOnDataOrCityChange ==
    (/\ recompute.ran
     /\ recompute.deps \cap {"cityData", "selectedCity"} # {}
     /\ Len(markersRef) + Len(clusterMarkersRef) > 0)
        => (recompute.fit /\ recompute.fitDeps = recompute.deps)

\* C21 as stated: every geolocation failure, of a request of the location
\* button or of the automatic request, sets the error message.
C21_FailureSetsError ==
    [][GeoFailure => locationError' # NoError]_vars

\* What a geolocation failure must leave alone
FailureFrame ==
    UNCHANGED <<userLocation, userLocationMarkerRef, nearestPizzerias, markersRef,
                markersMapRef, clusterMarkersRef, mapLayers, mapView, mapEventPending,
                rankCall>>

\* The failed request is taken out and no request is added
OneRequestLess ==
    \E r \in geoRequests : geoRequests' = geoRequests \ {r}

\* C22 as stated: a geolocation failure leaves the user coordinate, the
\* user-location marker, the published list, the rendered markers and the
\* map view unchanged, starts no request and leaves locating false.
C22_FailureFrame_AsStated ==
    [][GeoFailure => (FailureFrame /\ OneRequestLess /\ locating' = FALSE)]_vars

\* C22, amended: a geolocation failure leaves the user coordinate, the
\* user-location marker, the published list, the rendered markers and the
\* map view unchanged and starts no request; the failure of a request of the
\* location button sets locating to false, the failure of the automatic
\* request leaves locating as it is.
C22_FailureFrame ==
    [][GeoFailure =>
          /\ FailureFrame /\ OneRequestLess
          /\ \A r \in geoRequests \ geoRequests' :
                IF r.origin = "button" THEN locating' = FALSE
                ELSE locating' = locating]_vars

\* A request of the button has failed after an earlier request succeeded:
\* the coordinate and the list of the success are still there.
C22_Witness ==
    /\ locationError # NoError /\ errorTimer /\ ~locating
    /\ userLocation # NoLocation /\ nearestPizzerias # <<>>
    /\ geoRequests = {}

\* C23 as stated: the result of a request that resolves after the result
\* of a request made later was applied is discarded: it changes neither the
\* user coordinate, nor the user-location marker, the map view or the
\* published list.
C23_SupersededDiscarded ==
    [][(GeoSuccess /\ \E r \in geoRequests \ geoRequests' : r.superseded)
          => UNCHANGED <<userLocation, userLocationMarkerRef, mapView, nearestPizzerias>>]_vars

\* C24: once the dataset fetch has failed the status text is 'Error loading
\* data' in every later state, the dataset and the city options stay
\* empty and no marker is on the map; a loaded dataset has its statistics
\* as status text and, as city options, the cities of all_cities.json or,
\* when that fetch alone failed, the dataset's own city names.
C24_FetchFailure ==
    /\ [](stats = StatsError =>
            /\ cityData = <<>> /\ allCities = <<>>
            /\ markersRef = <<>> /\ markersMapRef = <<>> /\ clusterMarkersRef = <<>>
            /\ mapLayers = NoLayers /\ allMarkers = <<>> /\ ~recompute.ran)
    /\ [][stats = StatsError => stats' = StatsError]_vars
    /\ [](cityData # <<>> =>
            /\ stats = StatsOf(cityData, selectedCity)
            /\ allCities \in {AllCitiesFile(cityData), CityOptions(cityData)}
            /\ \A r \in LoadResults :
                  (r.scrapedData = cityData /\ r.cities = <<>>)
                      => allCities = CityOptions(cityData))

\* The fetch has failed, the map is there and the user has chosen a city
\* and moved the map since.
C24_Witness ==
    /\ stats = StatsError /\ isLeafletReady
    /\ selectedCity # NoCity /\ userActions = MaxUserActions
    /\ viewportBounds # << InitialView.bounds >>

\* C25 as stated: when a ranking of the loaded dataset has been computed
\* and holds no location, the side panel does not show what it shows while
\* no ranking has been computed.
C25_EmptyRankingDistinct ==
    (/\ rankCall.called /\ userLocation # NoLocation
     /\ cityData # <<>> /\ rankCall.cityData = cityData
     /\ nearestPizzerias = <<>>)
        => renderNearestList(nearestPizzerias, maxDistance).panel # "No location set"

\* The key is the key of a location of the dataset that has coordinates and
\* no marker of its own on the map
SelectableUnrendered(key, t) ==
    /\ t \in DatasetTriples(cityData)
    /\ KeyOfTriple(cityData, t) = key
    /\ HasCoordinates(TripleLocation(cityData, t))
    /\ key \notin DOMAIN markersMapRef

\* The selection of such a key moves the map to the location at zoom 15
C29_MovesToLocation ==
    [][\A t \in DatasetTriples(cityData) :
          (/\ isLeafletReady /\ cityData' = cityData
           /\ selectedLocation' = << KeyOfTriple(cityData, t) >>
           /\ selectedLocation' # selectedLocation
           /\ SelectableUnrendered(KeyOfTriple(cityData, t), t))
              => mapView' = View(SelectZoom,
                                 PointBounds(TripleLocation(cityData, t).lat,
                                             TripleLocation(cityData, t).lng))]_vars

\* When the timer of the selection fires after the map has arrived at the
\* location and the markers were updated there, the popup is opened
C29_PopupOpened ==
    [][\A key \in popupTimers :
          (/\ popupTimers' = popupTimers \ {key}
           /\ selectedLocation = << key >>
           /\ ~mapEventPending /\ mapView.zoom = SelectZoom)
              => popupOpen' = << key >>]_vars

\* C29 as stated: setting selectedLocation to the key of a location with
\* coordinates that has no marker of its own on the map moves the map to
\* the coordinates of that location at zoom 15, and the popup of the
\* location is opened once the map is there, the markers are updated and
\* the timer of the selection fires.
C29_SelectionShowsLocation ==
    C29_MovesToLocation /\ C29_PopupOpened

\* The list of the store holds the location
BkHolds(store, location) == isBookmarked(store, location)

\* The entries of the store other than the location, in their order
BkOthers(store, location) ==
    SelectSeq(getBookmarks(store), LAMBDA b : ~SameBookmark(b, location))

BkNoDuplicate(store) ==
    \A i, j \in 1..Len(getBookmarks(store)) :
        SameBookmark(getBookmarks(store)[i], getBookmarks(store)[j]) => i = j

\* The call flipped the membership of its location and kept the other entries
BkFlipped(call) ==
    /\ BkHolds(localStorage, call.location) = ~BkHolds(call.before, call.location)
    /\ BkOthers(localStorage, call.location) = BkOthers(call.before, call.location)

\* The list and the flag the call returned are those of the store
BkAgrees(call) ==
    /\ call.bookmarks = getBookmarks(localStorage)
    /\ call.isBookmarked = BkHolds(localStorage, call.location)

\* C30 as stated: a toggleBookmark call flips the membership of exactly its
\* tuple in the persisted store and leaves the other entries as they were;
\* the list and the flag it returns agree with the store after the call,
\* also when the write failed; the store never holds a tuple twice; and
\* two calls in a row on one tuple restore the membership the tuple had.
C30_ToggleBookmark ==
    /\ BkNoDuplicate(localStorage)
    /\ bkCall # <<>> => BkFlipped(bkCall[1]) /\ BkAgrees(bkCall[1])
    /\ (bkCall # <<>> /\ bkPrevCall # <<>>
          /\ bkCall[1].location = bkPrevCall[1].location)
         => (BkHolds(localStorage, bkCall[1].location)
               = BkHolds(bkPrevCall[1].before, bkCall[1].location))

\* What holds of the calls whose write succeeded
ToggleWhenWritten ==
    /\ BkNoDuplicate(localStorage)
    /\ (bkCall # <<>> /\ bkCall[1].writeOk)
         => BkFlipped(bkCall[1]) /\ BkAgrees(bkCall[1])
    /\ (bkCall # <<>> /\ bkPrevCall # <<>>
          /\ bkCall[1].writeOk /\ bkPrevCall[1].writeOk
          /\ bkCall[1].location = bkPrevCall[1].location)
         => (BkHolds(localStorage, bkCall[1].location)
               = BkHolds(bkPrevCall[1].before, bkCall[1].location))

====
